---- MODULE Spec2Model ----
(***************************************************************************)
(* State-machine model of the tuihub interaction core: App (app/state.rs), *)
(* the event loop `run` and the filter (app/update.rs), the platform       *)
(* command lookup (system/exec.rs), the tmux launcher (system/tmux.rs) and *)
(* the suspension of the terminal around a command (app/actions.rs).       *)
(*                                                                         *)
(* Rust strings are sequences of one-character strings, Option<T> is a     *)
(* sequence of length at most one (<<>> is None, <<v>> is Some(v)), and    *)
(* Vec indices are 0-based as in the source (Get converts).                *)
(***************************************************************************)
EXTENDS Integers, Sequences, FiniteSets, TLC

\* Longest search query the user types (bound of the model).
MaxQueryLen == 1

\* Characters the user types in search mode (bound of the model).
Alphabet == {"C", " "}

\* const TABS: [&str; 3]
TabsLen == 3

---------------------------------------------------------------------------
\* Strings

None == <<>>

Some(v) == <<v>>

\* Vec::get / slice::get with a 0-based index.
Get(seq, i) == IF i >= 0 /\ i < Len(seq) THEN Some(seq[i + 1]) ELSE None

\* Byte values of the characters used by the catalogs below (ASCII).
CharCode(c) ==
    CASE c = " " -> 32
      [] c = "C" -> 67
      [] c = "D" -> 68
      [] c = "N" -> 78
      [] c = "X" -> 88
      [] c = "Z" -> 90
      [] c = "a" -> 97
      [] c = "b" -> 98
      [] c = "c" -> 99
      [] c = "d" -> 100
      [] c = "e" -> 101
      [] c = "g" -> 103
      [] c = "i" -> 105
      [] c = "l" -> 108
      [] c = "n" -> 110
      [] c = "o" -> 111
      [] c = "r" -> 114
      [] c = "s" -> 115
      [] c = "t" -> 116
      [] c = "u" -> 117
      [] c = "v" -> 118
      [] c = "x" -> 120
      [] c = "z" -> 122

\* char::to_ascii_lowercase
LowerChar(c) ==
    CASE c = "C" -> "c"
      [] c = "D" -> "d"
      [] c = "N" -> "n"
      [] c = "X" -> "x"
      [] c = "Z" -> "z"
      [] OTHER -> c

\* str::to_ascii_lowercase
ToAsciiLowercase(s) == [i \in 1..Len(s) |-> LowerChar(s[i])]

\* char::is_whitespace, for the characters in use
IsWhitespace(c) == c = " "

RECURSIVE TrimStart(_)
TrimStart(s) ==
    IF s # <<>> /\ IsWhitespace(Head(s)) THEN TrimStart(Tail(s)) ELSE s

RECURSIVE TrimEnd(_)
TrimEnd(s) ==
    IF s # <<>> /\ IsWhitespace(s[Len(s)])
    THEN TrimEnd(SubSeq(s, 1, Len(s) - 1))
    ELSE s

\* str::trim
Trim(s) == TrimEnd(TrimStart(s))

\* str::contains(&str)
Contains(hay, needle) ==
    \E i \in 0..(Len(hay) - Len(needle)) :
        SubSeq(hay, i + 1, i + Len(needle)) = needle

\* str::eq_ignore_ascii_case
EqIgnoreAsciiCase(a, b) == ToAsciiLowercase(a) = ToAsciiLowercase(b)

\* Ord for String: lexicographic by byte.
RECURSIVE StrLess(_, _)
StrLess(a, b) ==
    IF b = <<>> THEN FALSE
    ELSE IF a = <<>> THEN TRUE
    ELSE IF CharCode(Head(a)) # CharCode(Head(b))
         THEN CharCode(Head(a)) < CharCode(Head(b))
         ELSE StrLess(Tail(a), Tail(b))

\* BTreeSet<String>::into_iter().collect(): the set in ascending order.
RECURSIVE SortedSeq(_)
SortedSeq(S) ==
    IF S = {} THEN <<>>
    ELSE LET m == CHOOSE x \in S : \A y \in S \ {x} : StrLess(x, y)
         IN  <<m>> \o SortedSeq(S \ {m})

---------------------------------------------------------------------------
\* Catalog (registry/model.rs) and platform (system/os.rs)

Platforms == {"Linux", "Wsl", "Mac", "Windows", "Unknown"}

InstallCommands(l, w, m, x) == [linux |-> l, wsl |-> w, mac |-> m, windows |-> x]

AppEntry(id, name, description, category, binary, install, uninstall) ==
    [id |-> id, name |-> name, description |-> description,
     category |-> category, binary |-> binary,
     install |-> install, uninstall |-> uninstall]

EntryX ==
    AppEntry(<<"x">>, <<"X", " ", "C">>, <<"c", "t", "l">>, <<"D", "e", "v">>, "xctl",
             InstallCommands(<<"a">>, <<"a">>, <<>>, <<"a">>),
             InstallCommands(<<"r">>, <<"r">>, <<"r">>, <<>>))

EntryZ ==
    AppEntry(<<"z">>, <<"Z", "e", "d">>, <<"a", " ", "t", "o", "o", "l">>, <<"N", "e", "t">>, "zed",
             InstallCommands(<<"b">>, <<" ">>, <<"b">>, <<"b">>),
             InstallCommands(<<"s">>, <<" ">>, <<>>, <<"s">>))

\* A catalog entry named "X Control", installed by `apt install xctl`.
EntryXControl ==
    AppEntry(<<"x">>, <<"X", " ", "C", "o", "n", "t", "r", "o", "l">>,
             <<"c", "t", "l">>, <<"D", "e", "v">>, "xctl",
             InstallCommands(<<"a", "p", "t", " ", "i", "n", "s", "t", "a", "l", "l", " ",
                               "x", "c", "t", "l">>, <<>>, <<>>, <<>>),
             InstallCommands(<<"a", "p", "t", " ", "r", "e", "m", "o", "v", "e", " ",
                               "x", "c", "t", "l">>, <<>>, <<>>, <<>>))

\* The catalogs load_entries may return.
Catalogs == { <<>>, <<EntryX, EntryZ>> }

Binaries == {"xctl", "zed"}

\* command_for_platform
CommandForPlatform(commands, plat) ==
    IF plat = "Unknown" THEN None
    ELSE LET cmd == CASE plat = "Linux" -> commands.linux
                      [] plat = "Wsl" -> commands.wsl
                      [] plat = "Mac" -> commands.mac
                      [] plat = "Windows" -> commands.windows
         IN  IF Trim(cmd) = <<>> THEN None ELSE Some(cmd)

\* A slip: the two shells are the wrong way round.
ShellForPlatformInverted(plat) ==
    IF plat = "Windows" THEN <<"sh", "-lc">> ELSE <<"cmd", "/C">>

\* shell_for_platform
ShellForPlatform(plat) ==
    IF plat = "Windows" THEN <<"cmd", "/C">> ELSE <<"sh", "-lc">>

---------------------------------------------------------------------------
\* struct App (app/state.rs) and the process environment

VARIABLES
    entries,            \* Vec<AppEntry>
    platform,           \* Platform
    on_path,            \* binaries that `which` resolves (the host's PATH)
    installed_ids,      \* HashSet<String>
    selected_tab,       \* usize
    categories,         \* Vec<String>
    selected_category,  \* usize
    filtered_indices,   \* Vec<usize>
    list_state,         \* ListState::selected(): Option<usize>
    selected_ids,       \* HashSet<String>
    search_mode,        \* bool
    search_input,       \* String
    status_set,         \* Option<String>: what set_status last received in the
                        \* last loop iteration (None if it was not called)
    confirm_mode,       \* bool
    confirm_action,     \* Option<ConfirmAction>
    confirm_selected,   \* bool
    running,            \* the loop of `run` has not reached `break`
    arm,                \* the match arm of `run` the last loop iteration took
    spawned,            \* Vec of the external commands the last loop iteration ran
    typed,              \* Option<char>: the c of the KeyCode::Char(c) the last loop
                        \* iteration pushed onto search_input (None if it pushed none)
    committed,          \* history: Some(search_input as '/' found it) while the
                        \* search it opened lasts, None otherwise; written by
                        \* SpecSearch only
    events,             \* Vec of the calls the last loop iteration made, in order
    now,                \* Utc::now().timestamp(): the clock, in whole seconds;
                        \* advanced by SpecLaunch only
    launched,           \* history: Vec of the names of the windows and sessions
                        \* the launches created; written by SpecLaunch only
    pc,                 \* the statement of suspend_tui_for_command that is next
    raw_mode,           \* the terminal is in raw mode
    alt_screen,         \* the terminal shows the alternate screen
    run_result,         \* Option<Result<()>>: what f() returned
    result,             \* Option<Result<()>>: what suspend_tui_for_command
                        \* returned; the five written by SpecSuspend only
    name_in,            \* the string handed to sanitize_tmux_name
    name_out,           \* Option<String>: what sanitize_tmux_name returned for
                        \* it; the two written by SpecSanitize only
    logs,               \* Vec<LogEntry>
    instant,            \* Instant::now(): the monotonic clock, in whole seconds
    footer,             \* the log entries the last draw put in the footer, and
                        \* the instant of that draw and the number of
                        \* entries it pruned; the three written by
                        \* SpecLog only (the calls of log the loop makes are
                        \* in `events`)
    resolved            \* history: the binaries `which` resolved at the last
                        \* refresh_installed_cache

vars == <<entries, platform, on_path, installed_ids, selected_tab, categories,
          selected_category, filtered_indices, list_state, selected_ids,
          search_mode, search_input, status_set, confirm_mode, confirm_action,
          confirm_selected, running, arm, spawned, typed, committed, events,
          now, launched, pc, raw_mode, alt_screen, run_result, result, name_in,
          name_out, logs, instant, footer, resolved>>

\* format!(...) handed to set_status
Status(msg, arg) == [msg |-> msg, arg |-> arg]

\* is_binary_installed
IsBinaryInstalled(binary) == binary \in on_path

\* The ids refresh_installed_cache collects.
InstalledCache ==
    { entries[i].id : i \in { j \in 1..Len(entries) : IsBinaryInstalled(entries[j].binary) } }

\* App::is_installed
IsInstalled(entry) == entry.id \in installed_ids

\* App::current_entry
CurrentEntry ==
    IF list_state = None THEN None
    ELSE LET entry_idx == Get(filtered_indices, list_state[1])
         IN  IF entry_idx = None THEN None ELSE Get(entries, entry_idx[1])

\* A slip: the focused entry wins over the explicit selection.
SelectedEntriesFocusFirst ==
    LET results == SelectSeq(entries, LAMBDA entry : entry.id \in selected_ids)
    IN  IF CurrentEntry # None THEN CurrentEntry ELSE results

\* A slip: the selected entries come last of the catalog first.
SelectedEntriesReversed ==
    LET results == SelectSeq(entries, LAMBDA entry : entry.id \in selected_ids)
    IN  IF results = <<>> THEN CurrentEntry
        ELSE [k \in 1..Len(results) |-> results[Len(results) + 1 - k]]

\* App::selected_entries
SelectedEntries ==
    LET results == SelectSeq(entries, LAMBDA entry : entry.id \in selected_ids)
    IN  IF results = <<>> THEN CurrentEntry ELSE results

\* App::matches_tab
MatchesTab(entry) ==
    CASE selected_tab = 0 -> TRUE
      [] selected_tab = 1 -> IsInstalled(entry)
      [] selected_tab = 2 ->
            LET cat == Get(categories, selected_category)
            IN  IF cat = None THEN TRUE ELSE EqIgnoreAsciiCase(entry.category, cat[1])
      [] OTHER -> TRUE

\* A slip: the query is lower-cased but the fields are compared as given.
MatchesSearchFieldsAsGiven(entry) ==
    IF Trim(search_input) = <<>> THEN TRUE
    ELSE LET needle == ToAsciiLowercase(search_input)
         IN  \/ Contains(entry.name, needle)
             \/ Contains(entry.description, needle)
             \/ Contains(entry.category, needle)
             \/ Contains(entry.id, needle)

\* App::matches_search
MatchesSearch(entry) ==
    IF Trim(search_input) = <<>> THEN TRUE
    ELSE LET needle == ToAsciiLowercase(search_input)
         IN  \/ Contains(ToAsciiLowercase(entry.name), needle)
             \/ Contains(ToAsciiLowercase(entry.description), needle)
             \/ Contains(ToAsciiLowercase(entry.category), needle)
             \/ Contains(ToAsciiLowercase(entry.id), needle)

\* entries.iter().enumerate().filter(..).filter(..).map(|(index, _)| index).collect()
RECURSIVE CollectIndices(_)
CollectIndices(n) ==
    IF n = 0 THEN <<>>
    ELSE LET rest == CollectIndices(n - 1)
         IN  IF MatchesTab(entries[n]) /\ MatchesSearch(entries[n])
             THEN Append(rest, n - 1)
             ELSE rest

MatchingIndices == CollectIndices(Len(entries))

\* A slip: the cursor goes back to the first row at every refresh.
RepairedCursorReset(selected, filtered) ==
    IF filtered = <<>> THEN None ELSE Some(0)

\* The cursor repair of refresh_filter.
RepairedCursor(selected, filtered) ==
    IF selected # None /\ selected[1] < Len(filtered) THEN selected
    ELSE IF filtered = <<>> THEN None
    ELSE Some(0)

\* A slip: the edit is not followed by refresh_filter.
RefreshFilterSkipped == UNCHANGED <<filtered_indices, list_state>>

\* refresh_filter, once the fields it reads have their new values
RefreshFilter ==
    /\ filtered_indices' = MatchingIndices'
    /\ list_state' = RepairedCursor(list_state, filtered_indices')

\* A slip: an empty catalog is left without a category.
CategoriesOfNoFallback(ents) ==
    SortedSeq({ ents[i].category : i \in 1..Len(ents) })

\* The categories App::new derives from the catalog.
CategoriesOf(ents) ==
    LET sorted == SortedSeq({ ents[i].category : i \in 1..Len(ents) })
    IN  IF sorted = <<>>
        THEN << <<"u","n","c","a","t","e","g","o","r","i","z","e","d">> >>
        ELSE sorted

\* App::new, for the catalog loaded, the platform detected and the PATH found
Constructed ==
    /\ installed_ids = InstalledCache
    /\ selected_tab = 0
    /\ categories = CategoriesOf(entries)
    /\ selected_category = 0
    /\ filtered_indices = <<>>
    /\ list_state = None
    /\ selected_ids = {}
    /\ search_mode = FALSE
    /\ search_input = <<>>
    /\ status_set = Some(Status("Ready", <<>>))
    /\ confirm_mode = FALSE
    /\ confirm_action = None
    /\ confirm_selected = FALSE
    /\ running = TRUE
    /\ arm = "App::new"
    /\ spawned = <<>>
    /\ typed = None
    /\ committed = None
    /\ events = <<>>
    /\ now = 0
    /\ launched = <<>>
    /\ pc = "idle"
    /\ raw_mode = TRUE
    /\ alt_screen = TRUE
    /\ run_result = None
    /\ result = None
    /\ name_in = <<>>
    /\ name_out = None
    /\ logs = <<>>
    /\ instant = 0
    /\ footer = [at |-> 0, logs |-> <<>>, dropped |-> 0]
    /\ resolved = on_path

\* App::new
Init ==
    /\ entries \in Catalogs
    /\ platform \in {"Linux", "Wsl", "Unknown"}
    /\ on_path \in SUBSET Binaries
    /\ Constructed

---------------------------------------------------------------------------
\* Methods of App and the free functions of app/update.rs

\* A slip: move_down steps past the last row instead of wrapping.
MoveDownPastEnd ==
    list_state' =
        IF filtered_indices = <<>> THEN None
        ELSE IF list_state # None THEN Some(list_state[1] + 1)
             ELSE Some(0)

\* What move_down selects, from this selection in a list of this length.
MovedDown(selected, len) ==
    IF len = 0 THEN None
    ELSE IF selected # None /\ selected[1] + 1 < len
         THEN Some(selected[1] + 1)
         ELSE Some(0)

\* App::move_down
MoveDown == list_state' = MovedDown(list_state, Len(filtered_indices))

\* A slip: the first row is not wrapped to the last.
MovedUpSaturating(selected, len) ==
    IF len = 0 THEN None
    ELSE IF selected = None THEN Some(len - 1)
    ELSE IF selected = Some(0) THEN Some(0)
    ELSE Some(selected[1] - 1)

\* What move_up selects, from this selection in a list of this length.
MovedUp(selected, len) ==
    IF len = 0 THEN None
    ELSE IF selected = None \/ selected = Some(0)
         THEN Some(len - 1)
         ELSE Some(selected[1] - 1)

\* App::move_up
MoveUp == list_state' = MovedUp(list_state, Len(filtered_indices))

\* A slip: the id is inserted whether it is there or not.
ToggleSelectedCurrentInserts ==
    selected_ids' =
        IF CurrentEntry = None THEN selected_ids
        ELSE selected_ids \cup {CurrentEntry[1].id}

\* App::toggle_selected_current
ToggleSelectedCurrent ==
    selected_ids' =
        IF CurrentEntry = None THEN selected_ids
        ELSE LET entry_id == CurrentEntry[1].id
             IN  IF entry_id \in selected_ids
                 THEN selected_ids \ {entry_id}
                 ELSE selected_ids \cup {entry_id}

\* App::clear_selection
ClearSelection == selected_ids' = {}

\* Duration::from_secs(3): how long a log entry lives
LogLifetime == 3

\* self.logs.len() > 3: the entries the queue holds at most
MaxLogs == 3

\* struct LogEntry
LogEntry(message, level, created_at) ==
    [message |-> message, level |-> level, created_at |-> created_at]

\* A slip: an entry is kept until it is older than the lifetime.
RetainInclusive(queue, at) ==
    SelectSeq(queue, LAMBDA l : at - l.created_at <= LogLifetime)

\* logs.retain(|l| now.duration_since(l.created_at) < Duration::from_secs(3))
Retain(queue, at) ==
    SelectSeq(queue, LAMBDA l : at - l.created_at < LogLifetime)

\* A slip: the queue is not cut back after the push.
AppLogUncapped(queue, message, level, at) ==
    Append(Retain(queue, at), LogEntry(message, level, at))

\* App::log, called at this instant
AppLog(queue, message, level, at) ==
    LET pushed == Append(Retain(queue, at), LogEntry(message, level, at))
    IN  IF Len(pushed) > MaxLogs THEN Tail(pushed) ELSE pushed

\* render_footer: the queue is pruned, and what is left is what the second
\* line of the footer shows.
RenderFooter ==
    /\ logs' = Retain(logs, instant)
    /\ footer' = [at |-> instant, logs |-> logs', dropped |-> Len(logs) - Len(logs')]

\* A slip: the cache is not rebuilt after the commands ran.
RefreshInstalledCacheStale == UNCHANGED installed_ids /\ resolved' = on_path'

\* A slip: the ids found are added to the set instead of replacing it.
RefreshInstalledCachePatched ==
    installed_ids' = installed_ids \cup InstalledCache' /\ resolved' = on_path'

\* App::refresh_installed_cache, once the commands have acted on the PATH
RefreshInstalledCache == installed_ids' = InstalledCache' /\ resolved' = on_path'

\* cycle_tab_right
CycleTabRight ==
    /\ selected_tab' = (selected_tab + 1) % TabsLen
    /\ UNCHANGED <<selected_category>>

\* cycle_tab_left
CycleTabLeft ==
    /\ selected_tab' = IF selected_tab = 0 THEN TabsLen - 1 ELSE selected_tab - 1
    /\ UNCHANGED <<selected_category>>

\* category_right: the new selected_category, None on the early return
CategoryRight ==
    IF selected_tab # 2 \/ categories = <<>> THEN None
    ELSE Some((selected_category + 1) % Len(categories))

\* A slip: the tab is not looked at.
CategoryLeftAnyTab ==
    IF categories = <<>> THEN None
    ELSE Some(IF selected_category = 0
              THEN Len(categories) - 1
              ELSE selected_category - 1)

\* category_left: the new selected_category, None on the early return
CategoryLeft ==
    IF selected_tab # 2 \/ categories = <<>> THEN None
    ELSE Some(IF selected_category = 0
              THEN Len(categories) - 1
              ELSE selected_category - 1)

---------------------------------------------------------------------------
\* External processes

\* The values the TMUX environment variable is read with: unset, blank, or
\* the socket of the surrounding session.
TmuxEnv == { None, Some(<<" ">>), Some(<<"/", "t">>) }

\* A slip: the value of TMUX is not trimmed before it is tested.
InTmuxSessionUntrimmed(tmux_var) == tmux_var # None /\ tmux_var[1] # <<>>

\* in_tmux_session
InTmuxSession(tmux_var) == tmux_var # None /\ Trim(tmux_var[1]) # <<>>

\* tmux_install_hint
TmuxInstallHint(plat) ==
    CASE plat \in {"Linux", "Wsl"} -> "Install tmux: sudo apt install tmux"
      [] plat = "Mac" -> "Install tmux: brew install tmux"
      [] plat = "Windows" -> "Install tmux in WSL, then run TUIHub inside WSL terminal."
      [] OTHER -> "Install tmux for your platform."

\* char::is_ascii_alphanumeric
AsciiAlphanumeric ==
    { "a", "b", "c", "d", "e", "f", "g", "h", "i", "j", "k", "l", "m",
      "n", "o", "p", "q", "r", "s", "t", "u", "v", "w", "x", "y", "z",
      "A", "B", "C", "D", "E", "F", "G", "H", "I", "J", "K", "L", "M",
      "N", "O", "P", "Q", "R", "S", "T", "U", "V", "W", "X", "Y", "Z",
      "0", "1", "2", "3", "4", "5", "6", "7", "8", "9" }

\* The body of the loop of sanitize_tmux_name: what it pushes for ch.
SanitizeChar(ch) ==
    IF ch \in AsciiAlphanumeric \/ ch = "-" \/ ch = "_" THEN ch ELSE "-"

\* str::trim_matches('-')
RECURSIVE TrimHyphens(_)
TrimHyphens(s) ==
    IF s = <<>> THEN s
    ELSE IF Head(s) = "-" THEN TrimHyphens(Tail(s))
    ELSE IF s[Len(s)] = "-" THEN TrimHyphens(SubSeq(s, 1, Len(s) - 1))
    ELSE s

\* A slip: what is left after trimming is returned even when it is empty.
SanitizeTmuxNameNoFallback(input) ==
    TrimHyphens([k \in 1..Len(input) |-> SanitizeChar(input[k])])

\* sanitize_tmux_name
SanitizeTmuxName(input) ==
    LET out == [k \in 1..Len(input) |-> SanitizeChar(input[k])]
        trimmed == TrimHyphens(out)
    IN  IF trimmed = <<>> THEN <<"a", "p", "p">> ELSE trimmed

\* One call the last loop iteration made: set_status, log,
\* suspend_tui_for_command (its suspension and its resumption), a Command run
\* to completion, has_tmux, a read of the TMUX variable,
\* refresh_installed_cache, refresh_filter. id is the id of
\* the target the call is about (empty when it is about none); the detail of
\* a Command is its place in `spawned`.
Ev(kind, id, detail) == [kind |-> kind, id |-> id, detail |-> detail]

\* A Command the program ran to completion, and how it ended.
Spawn(op, entry, program, args, ok) ==
    [op |-> op, id |-> entry.id, program |-> program, args |-> args, ok |-> ok]

\* run_install_cmd: the command through the platform's shell; ok is the
\* exit status (or the spawn) succeeding.
RunInstallCmd(op, entry, cmd, ok) ==
    Spawn(op, entry, ShellForPlatform(platform)[1],
          <<ShellForPlatform(platform)[2], cmd>>, ok)

\* What an iteration has written so far: the status, the commands it ran,
\* what they did to the PATH, and its calls in order.
Outcome(st, sp, path, ev) ==
    [status |-> st, spawned |-> sp, on_path |-> path, events |-> ev]

\* app.set_status(format!(..)) about a target
SetStatus(acc, id, msg, arg) ==
    [acc EXCEPT !.status = Some(Status(msg, arg)),
                !.events = Append(@, Ev("set_status", id, Status(msg, arg)))]

\* app.log(format!(..), level) about a target
Log(acc, id, level, msg) ==
    [acc EXCEPT !.events = Append(@, Ev("log", id, [level |-> level, msg |-> msg]))]

\* suspend_tui_for_command(terminal, message, || run_install_cmd(..)) with
\* the terminal obeying: the screen is left, the command runs to completion,
\* the screen is taken back.
SuspendTuiForCommand(acc, spawn) ==
    [acc EXCEPT !.spawned = Append(@, spawn),
                !.events = @ \o << Ev("suspend", spawn.id, <<>>),
                                   Ev("spawn", spawn.id, Len(acc.spawned) + 1),
                                   Ev("resume", spawn.id, <<>>) >>]

\* A slip: an installed target is installed again.
InstallTargetAgain(acc, target, ok) ==
    LET cmd == CommandForPlatform(target.install, platform)
    IN  IF cmd = None \/ Trim(cmd[1]) = <<>>
        THEN SetStatus(acc, target.id, "No install command defined", target.name)
        ELSE LET told == SetStatus(acc, target.id, "Installing using", target.name)
                 ran == SuspendTuiForCommand(
                            told, RunInstallCmd("install", target, cmd[1], ok))
             IN  IF ok
                 THEN [SetStatus(Log(ran, target.id, "Success", "Installed"),
                                 target.id, "Installed successfully", target.name)
                        EXCEPT !.on_path = @ \cup {target.binary}]
                 ELSE SetStatus(Log(ran, target.id, "Error", "Error"),
                                target.id, "Install failed", target.name)

\* One target of the install loop.
InstallTarget(acc, target, ok) ==
    IF IsInstalled(target)
    THEN Log(SetStatus(acc, target.id, "already installed", target.name),
             target.id, "Info", "already installed")
    ELSE LET cmd == CommandForPlatform(target.install, platform)
         IN  IF cmd = None \/ Trim(cmd[1]) = <<>>
             THEN SetStatus(acc, target.id, "No install command defined", target.name)
             ELSE LET told == SetStatus(acc, target.id, "Installing using", target.name)
                      ran == SuspendTuiForCommand(
                                 told, RunInstallCmd("install", target, cmd[1], ok))
                  IN  IF ok
                      THEN [SetStatus(Log(ran, target.id, "Success", "Installed"),
                                      target.id, "Installed successfully", target.name)
                             EXCEPT !.on_path = @ \cup {target.binary}]
                      ELSE SetStatus(Log(ran, target.id, "Error", "Error"),
                                     target.id, "Install failed", target.name)

\* A slip: the loop of the install key ends at the first command that fails.
RECURSIVE InstallLoopStopsAtFailure(_, _, _, _)
InstallLoopStopsAtFailure(targets, oks, k, acc) ==
    IF k > Len(targets) \/ (acc.spawned # <<>> /\ ~acc.spawned[Len(acc.spawned)].ok)
    THEN acc
    ELSE InstallLoopStopsAtFailure(targets, oks, k + 1,
                                   InstallTarget(acc, targets[k], oks[k]))

\* for target in targets { .. } of the install key
RECURSIVE InstallLoop(_, _, _, _)
InstallLoop(targets, oks, k, acc) ==
    IF k > Len(targets) THEN acc
    ELSE InstallLoop(targets, oks, k + 1, InstallTarget(acc, targets[k], oks[k]))

\* One target of the confirmed uninstall loop.
UninstallTarget(acc, target, ok) ==
    LET cmd == CommandForPlatform(target.uninstall, platform)
    IN  IF cmd = None THEN acc
        ELSE LET told == SetStatus(acc, target.id, "Uninstalling using", target.name)
                 ran == SuspendTuiForCommand(
                            told, RunInstallCmd("uninstall", target, cmd[1], ok))
             IN  IF ok
                 THEN [SetStatus(Log(ran, target.id, "Success", "Uninstalled"),
                                 target.id, "Uninstalled successfully", target.name)
                        EXCEPT !.on_path = @ \ {target.binary}]
                 ELSE SetStatus(Log(ran, target.id, "Error", "Error"),
                                target.id, "Uninstall failed", target.name)

\* for target in targets { .. } of the confirmed uninstall
RECURSIVE UninstallLoop(_, _, _, _)
UninstallLoop(targets, oks, k, acc) ==
    IF k > Len(targets) THEN acc
    ELSE UninstallLoop(targets, oks, k + 1, UninstallTarget(acc, targets[k], oks[k]))

\* format!("th-{}-{}", safe_name, timestamp) and
\* format!("tuihub-{}-{}", safe_name, timestamp)
TmuxName(prefix, id, timestamp) ==
    [prefix |-> prefix, safe_name |-> SanitizeTmuxName(id), timestamp |-> timestamp]

\* launch_in_tmux: a window inside a tmux session, a detached session
\* otherwise; the command it issues, and the tagged name it returns (None
\* for the Err of a command that could not be run or did not succeed).
LaunchInTmux(entry, tmux_var, ok) ==
    IF InTmuxSession(tmux_var)
    THEN LET window_name == TmuxName("th-", entry.id, now)
         IN  [spawn |-> Spawn("window", entry, "tmux",
                              <<"new-window", "-n", window_name, entry.binary>>, ok),
              returned |-> IF ok THEN Some([tag |-> "window:", name |-> window_name])
                                 ELSE None]
    ELSE LET session_name == TmuxName("tuihub-", entry.id, now)
         IN  [spawn |-> Spawn("session", entry, "tmux",
                              <<"new-session", "-d", "-s", session_name, entry.binary>>, ok),
              returned |-> IF ok THEN Some([tag |-> "session:", name |-> session_name])
                                 ELSE None]

\* match launch_in_tmux(..) { .. }: the report of a launch, shared by the
\* launch key and the quick launch.
LaunchReport(acc, target, tmux_var, ok) ==
    LET launch == LaunchInTmux(target, tmux_var, ok)
        ran == [acc EXCEPT !.spawned = Append(@, launch.spawn),
                           !.events = @ \o << Ev("env::var", target.id, tmux_var),
                                              Ev("spawn", target.id, Len(acc.spawned) + 1) >>]
    IN  IF launch.returned = None
        THEN SetStatus(Log(ran, target.id, "Error", "Error"),
                       target.id, "Launch failed", target.name)
        ELSE IF launch.returned[1].tag = "session:"
        THEN SetStatus(Log(ran, target.id, "Info", "Session opened"),
                       target.id, "Launched in tmux session", target.name)
        ELSE SetStatus(Log(ran, target.id, "Info", "Window opened"),
                       target.id, "Launched in tmux window", target.name)

\* A slip: a target that is not installed is launched all the same.
LaunchTargetUnchecked(acc, target, tmux_var, ok) ==
    LaunchReport(acc, target, tmux_var, ok)

\* One target of the launch loop.
LaunchTarget(acc, target, tmux_var, ok) ==
    IF ~IsInstalled(target)
    THEN Log(SetStatus(acc, target.id, "is not installed yet", target.name),
             target.id, "Info", "not installed")
    ELSE LaunchReport(acc, target, tmux_var, ok)

\* for target in targets { .. } of the launch key
RECURSIVE LaunchLoop(_, _, _, _, _)
LaunchLoop(targets, tmux_var, oks, k, acc) ==
    IF k > Len(targets) THEN acc
    ELSE LaunchLoop(targets, tmux_var, oks, k + 1,
                    LaunchTarget(acc, targets[k], tmux_var, oks[k]))

\* A slip: the batch is followed by the refreshes only if no command failed.
AfterBatchUnlessFailed(done) ==
    IF \A j \in 1..Len(done.spawned) : done.spawned[j].ok
    THEN /\ events' = done.events \o << Ev("refresh_installed_cache", <<>>, <<>>),
                                        Ev("refresh_filter", <<>>, <<>>) >>
         /\ RefreshInstalledCache
         /\ RefreshFilter
    ELSE /\ events' = done.events
         /\ UNCHANGED <<installed_ids, resolved, filtered_indices, list_state>>

\* app.refresh_installed_cache(); refresh_filter(app); after the loop of an
\* install and of a confirmed uninstall
AfterBatch(done) ==
    /\ events' = done.events \o << Ev("refresh_installed_cache", <<>>, <<>>),
                                   Ev("refresh_filter", <<>>, <<>>) >>
    /\ RefreshInstalledCache
    /\ RefreshFilter

\* A slip: the second filter, on the uninstall command, is left out.
InstalledTargetsAnyCommand(targets) ==
    SelectSeq(targets, LAMBDA target : IsInstalled(target))

\* The targets of an uninstall request that pass both filters.
InstalledTargets(targets) ==
    SelectSeq(targets,
              LAMBDA target :
                  /\ IsInstalled(target)
                  /\ LET cmd == CommandForPlatform(target.uninstall, platform)
                     IN  cmd # None /\ Trim(cmd[1]) # <<>>)

---------------------------------------------------------------------------
\* The event loop `run` (app/update.rs): one action per arm of its matches.
\* Each action is one whole iteration: read an event, dispatch, settle.

\* Fields no key event changes.
catalog == <<entries, platform, categories>>

\* The same, with the history variable that only opening and closing a search
\* write.
\* The terminal and the position in suspend_tui_for_command.
tui == <<pc, raw_mode, alt_screen, run_result, result>>

\* The argument and the result of sanitize_tmux_name on any string.
sanitizing == <<name_in, name_out>>

\* The log queue, the clock it is pruned by, and the footer drawn from it.
logging == <<logs, instant, footer>>

\* What an iteration of the loop leaves alone, but for the history of the
\* refreshes of the installed cache.
ambient == <<catalog, committed, now, launched, tui, sanitizing, logging>>

fixed == <<ambient, resolved>>

\* The view: what tab, category, query and filter select.
view == <<selected_tab, selected_category, search_input, filtered_indices, list_state>>

modes == <<search_mode, confirm_mode, confirm_action, confirm_selected>>

\* The iteration took this arm, which pushes no character onto the query.
Took(a) == arm' = a /\ typed' = None

\* The iteration calls neither set_status nor a command, nor anything else
\* that is recorded.
Quiet == status_set' = None /\ spawned' = <<>> /\ events' = <<>>

\* The iteration calls refresh_filter and nothing else that is recorded.
Refreshed ==
    /\ status_set' = None
    /\ spawned' = <<>>
    /\ events' = << Ev("refresh_filter", <<>>, <<>>) >>

\* The iteration runs no command and its one recorded call sets this status.
Says(msg, arg) ==
    /\ status_set' = Some(Status(msg, arg))
    /\ spawned' = <<>>
    /\ events' = << Ev("set_status", <<>>, Status(msg, arg)) >>

\* event::poll timed out, or the key event is not a Press: `continue`.
NoEventArm ==
    /\ Took("NoEvent")
    /\ running
    /\ Quiet
    /\ UNCHANGED <<catalog, committed, now, launched, tui, sanitizing, resolved, view,
                   modes, on_path, installed_ids, selected_ids, running>>

NoEvent == NoEventArm /\ UNCHANGED logging

\* ---- search_mode

\* A slip: Esc in search mode also clears the query, as it does outside.
SearchEscArmClears ==
    /\ Took("SearchEsc")
    /\ running /\ search_mode
    /\ search_mode' = FALSE
    /\ search_input' = <<>>
    /\ UNCHANGED <<catalog, now, launched, tui, sanitizing, logging, resolved, selected_tab, selected_category,
                   installed_ids>>
    /\ RefreshFilter
    /\ Refreshed
    /\ UNCHANGED <<on_path, selected_ids, confirm_mode, confirm_action,
                   confirm_selected, running>>

\* KeyCode::Esc
SearchEscArm ==
    /\ Took("SearchEsc")
    /\ running /\ search_mode
    /\ search_mode' = FALSE
    /\ Quiet
    /\ UNCHANGED <<catalog, now, launched, tui, sanitizing, logging, resolved, view, on_path, installed_ids,
                   selected_ids, confirm_mode, confirm_action, confirm_selected,
                   running>>

\* KeyCode::Enter
SearchEnterArm ==
    /\ Took("SearchEnter")
    /\ running /\ search_mode
    /\ search_mode' = FALSE
    /\ Says("Search applied", search_input)
    /\ UNCHANGED <<catalog, now, launched, tui, sanitizing, logging, resolved, view, on_path, installed_ids,
                   selected_ids, confirm_mode, confirm_action, confirm_selected,
                   running>>

SearchEsc == SearchEscArm /\ UNCHANGED committed

SearchEnter == SearchEnterArm /\ UNCHANGED committed

\* KeyCode::Backspace
SearchBackspace ==
    /\ Took("SearchBackspace")
    /\ running /\ search_mode
    /\ search_input' = SubSeq(search_input, 1, Len(search_input) - 1)
    /\ UNCHANGED <<fixed, selected_tab, selected_category, installed_ids>>
    /\ RefreshFilter
    /\ Refreshed
    /\ UNCHANGED <<modes, on_path, selected_ids, running>>

\* KeyCode::Char(c) without Control, for c among these characters and a
\* query below this length
SearchCharOf(chars, max_len) ==
    /\ arm' = "SearchChar"
    /\ running /\ search_mode
    /\ Len(search_input) < max_len
    /\ \E c \in chars : search_input' = Append(search_input, c) /\ typed' = Some(c)
    /\ UNCHANGED <<fixed, selected_tab, selected_category, installed_ids>>
    /\ RefreshFilter
    /\ Refreshed
    /\ UNCHANGED <<modes, on_path, selected_ids, running>>

SearchChar == SearchCharOf(Alphabet, MaxQueryLen)

\* A slip: the Control modifier is not looked at, and the character goes
\* into the query.
SearchIgnoredPushes ==
    /\ Took("SearchIgnored")
    /\ running /\ search_mode
    /\ Len(search_input) < MaxQueryLen
    /\ \E c \in Alphabet : search_input' = Append(search_input, c)
    /\ UNCHANGED <<fixed, selected_tab, selected_category, installed_ids>>
    /\ RefreshFilter
    /\ Refreshed
    /\ UNCHANGED <<modes, on_path, selected_ids, running>>

\* A slip: Control-c ends the loop from search mode as it does outside.
SearchIgnoredBreaks ==
    /\ Took("SearchIgnored")
    /\ running /\ search_mode
    /\ running' = FALSE
    /\ Quiet
    /\ UNCHANGED <<fixed, view, modes, on_path, installed_ids, selected_ids>>

\* KeyCode::Char(c) with Control, or a key search mode has no arm for.
SearchIgnored ==
    /\ Took("SearchIgnored")
    /\ running /\ search_mode
    /\ Quiet
    /\ UNCHANGED <<fixed, view, modes, on_path, installed_ids, selected_ids, running>>

\* ---- confirm_mode

\* KeyCode::Enter with confirm_selected
ConfirmEnterYes ==
    /\ Took("ConfirmEnterYes")
    /\ running /\ ~search_mode /\ confirm_mode
    /\ confirm_selected
    /\ IF confirm_action # None
       THEN LET targets == confirm_action[1]
            IN  \E oks \in [1..Len(targets) -> BOOLEAN] :
                  LET done == UninstallLoop(targets, oks, 1,
                                            Outcome(None, <<>>, on_path, <<>>))
                  IN  /\ confirm_mode' = FALSE
                      /\ confirm_action' = None
                      /\ status_set' = done.status
                      /\ spawned' = done.spawned
                      /\ on_path' = done.on_path
                      /\ UNCHANGED <<ambient, selected_tab, selected_category,
                                     search_input>>
                      /\ AfterBatch(done)
       ELSE /\ Quiet
            /\ UNCHANGED <<fixed, view, confirm_mode, confirm_action, on_path,
                           installed_ids>>
    /\ UNCHANGED <<search_mode, confirm_selected, selected_ids, running>>

\* A slip: Enter on "No" reports the cancellation and leaves the dialog open.
ConfirmEnterNoStays ==
    /\ Took("ConfirmEnterNo")
    /\ running /\ ~search_mode /\ confirm_mode
    /\ ~confirm_selected
    /\ Says("Uninstall cancelled.", <<>>)
    /\ UNCHANGED <<fixed, view, modes, on_path, installed_ids, selected_ids, running>>

\* KeyCode::Enter without confirm_selected
ConfirmEnterNo ==
    /\ Took("ConfirmEnterNo")
    /\ running /\ ~search_mode /\ confirm_mode
    /\ ~confirm_selected
    /\ confirm_mode' = FALSE
    /\ confirm_action' = None
    /\ Says("Uninstall cancelled.", <<>>)
    /\ UNCHANGED <<fixed, view, on_path, installed_ids, selected_ids,
                   search_mode, confirm_selected, running>>

\* A slip: Left moves the choice to "No".
ConfirmLeftNegative ==
    /\ Took("ConfirmLeft")
    /\ running /\ ~search_mode /\ confirm_mode
    /\ confirm_selected' = FALSE
    /\ Quiet
    /\ UNCHANGED <<fixed, view, on_path, installed_ids, selected_ids,
                   search_mode, confirm_mode, confirm_action, running>>

\* KeyCode::Left | KeyCode::Char('h')
ConfirmLeft ==
    /\ Took("ConfirmLeft")
    /\ running /\ ~search_mode /\ confirm_mode
    /\ confirm_selected' = TRUE
    /\ Quiet
    /\ UNCHANGED <<fixed, view, on_path, installed_ids, selected_ids,
                   search_mode, confirm_mode, confirm_action, running>>

\* KeyCode::Right | KeyCode::Char('l')
ConfirmRight ==
    /\ Took("ConfirmRight")
    /\ running /\ ~search_mode /\ confirm_mode
    /\ confirm_selected' = FALSE
    /\ Quiet
    /\ UNCHANGED <<fixed, view, on_path, installed_ids, selected_ids,
                   search_mode, confirm_mode, confirm_action, running>>

\* A slip: cancelling closes the dialog but keeps the pending targets.
ConfirmCancelKeepsPending ==
    /\ Took("ConfirmCancel")
    /\ running /\ ~search_mode /\ confirm_mode
    /\ confirm_mode' = FALSE
    /\ Says("Uninstall cancelled.", <<>>)
    /\ UNCHANGED <<fixed, view, on_path, installed_ids, selected_ids,
                   search_mode, confirm_action, confirm_selected, running>>

\* A slip: the dialog is closed with the pending targets left behind.
ConfirmCancelKeepsAction ==
    /\ Took("ConfirmCancel")
    /\ running /\ ~search_mode /\ confirm_mode
    /\ confirm_mode' = FALSE
    /\ Says("Uninstall cancelled.", <<>>)
    /\ UNCHANGED <<fixed, view, on_path, installed_ids, selected_ids,
                   search_mode, confirm_action, confirm_selected, running>>

\* KeyCode::Esc | KeyCode::Char('q')
ConfirmCancel ==
    /\ Took("ConfirmCancel")
    /\ running /\ ~search_mode /\ confirm_mode
    /\ confirm_mode' = FALSE
    /\ confirm_action' = None
    /\ Says("Uninstall cancelled.", <<>>)
    /\ UNCHANGED <<fixed, view, on_path, installed_ids, selected_ids,
                   search_mode, confirm_selected, running>>

\* `_ => {}` of confirm mode
ConfirmIgnored ==
    /\ Took("ConfirmIgnored")
    /\ running /\ ~search_mode /\ confirm_mode
    /\ Quiet
    /\ UNCHANGED <<fixed, view, modes, on_path, installed_ids, selected_ids, running>>

\* ---- neither mode

\* How the commands of one iteration can end, one flag per target: either way
\* for a target whose command runs, FALSE for one whose command never runs.
ExitStatuses(runs) ==
    { oks \in [1..Len(runs) -> BOOLEAN] : \A k \in 1..Len(runs) : ~runs[k] => ~oks[k] }

Normal == running /\ ~search_mode /\ ~confirm_mode

\* names.join(", ")
RECURSIVE Join(_)
Join(names) ==
    IF names = <<>> THEN <<>>
    ELSE IF Len(names) = 1 THEN names[1]
    ELSE names[1] \o <<",", " ">> \o Join(Tail(names))

\* KeyCode::Char('q'), or KeyCode::Char('c') with Control: `break`
KeyQuit ==
    /\ Took("KeyQuit")
    /\ Normal
    /\ running' = FALSE
    /\ Quiet
    /\ UNCHANGED <<fixed, view, modes, on_path, installed_ids, selected_ids>>

\* KeyCode::Down | KeyCode::Char('j')
KeyDown ==
    /\ Took("KeyDown")
    /\ Normal
    /\ MoveDown
    /\ Quiet
    /\ UNCHANGED <<fixed, selected_tab, selected_category, search_input,
                   filtered_indices, modes, on_path, installed_ids, selected_ids,
                   running>>

\* KeyCode::Up | KeyCode::Char('k')
KeyUp ==
    /\ Took("KeyUp")
    /\ Normal
    /\ MoveUp
    /\ Quiet
    /\ UNCHANGED <<fixed, selected_tab, selected_category, search_input,
                   filtered_indices, modes, on_path, installed_ids, selected_ids,
                   running>>

\* KeyCode::Tab
KeyTab ==
    /\ Took("KeyTab")
    /\ Normal
    /\ CycleTabRight
    /\ UNCHANGED <<fixed, search_input, installed_ids>>
    /\ RefreshFilter
    /\ Refreshed
    /\ UNCHANGED <<modes, on_path, selected_ids, running>>

\* KeyCode::BackTab
KeyBackTab ==
    /\ Took("KeyBackTab")
    /\ Normal
    /\ CycleTabLeft
    /\ UNCHANGED <<fixed, search_input, installed_ids>>
    /\ RefreshFilter
    /\ Refreshed
    /\ UNCHANGED <<modes, on_path, selected_ids, running>>

\* KeyCode::Left
KeyLeft ==
    /\ Took("KeyLeft")
    /\ Normal
    /\ IF CategoryLeft = None
       THEN /\ Quiet
            /\ UNCHANGED <<fixed, view, installed_ids>>
       ELSE /\ selected_category' = CategoryLeft[1]
            /\ UNCHANGED <<fixed, selected_tab, search_input, installed_ids>>
            /\ RefreshFilter
            /\ Refreshed
    /\ UNCHANGED <<modes, on_path, selected_ids, running>>

\* KeyCode::Right
KeyRight ==
    /\ Took("KeyRight")
    /\ Normal
    /\ IF CategoryRight = None
       THEN /\ Quiet
            /\ UNCHANGED <<fixed, view, installed_ids>>
       ELSE /\ selected_category' = CategoryRight[1]
            /\ UNCHANGED <<fixed, selected_tab, search_input, installed_ids>>
            /\ RefreshFilter
            /\ Refreshed
    /\ UNCHANGED <<modes, on_path, selected_ids, running>>

\* KeyCode::Char(' ')
KeySpace ==
    /\ Took("KeySpace")
    /\ Normal
    /\ ToggleSelectedCurrent
    /\ Quiet
    /\ UNCHANGED <<fixed, view, modes, on_path, installed_ids, running>>

\* KeyCode::Char('/')
KeySlashArm ==
    /\ Took("KeySlash")
    /\ Normal
    /\ search_mode' = TRUE
    /\ Quiet
    /\ UNCHANGED <<catalog, now, launched, tui, sanitizing, logging, resolved, view, on_path, installed_ids,
                   selected_ids, confirm_mode, confirm_action, confirm_selected,
                   running>>

KeySlash == KeySlashArm /\ UNCHANGED committed

\* KeyCode::Esc
KeyEsc ==
    /\ Took("KeyEsc")
    /\ Normal
    /\ IF search_input # <<>>
       THEN /\ search_input' = <<>>
            /\ UNCHANGED <<fixed, selected_tab, selected_category, installed_ids>>
            /\ RefreshFilter
            /\ status_set' = Some(Status("Search cleared.", <<>>))
            /\ spawned' = <<>>
            /\ events' = << Ev("refresh_filter", <<>>, <<>>),
                            Ev("set_status", <<>>, Status("Search cleared.", <<>>)) >>
       ELSE /\ Quiet
            /\ UNCHANGED <<fixed, view, installed_ids>>
    /\ UNCHANGED <<modes, on_path, selected_ids, running>>

\* A slip: clearing the selection takes the cursor back to the first row.
KeyClearResetsCursor ==
    /\ Took("KeyClear")
    /\ Normal
    /\ ClearSelection
    /\ list_state' = IF filtered_indices = <<>> THEN None ELSE Some(0)
    /\ Quiet
    /\ UNCHANGED <<fixed, selected_tab, selected_category, search_input,
                   filtered_indices, modes, on_path, installed_ids, running>>

\* KeyCode::Char('c') | KeyCode::Char('C')
KeyClear ==
    /\ Took("KeyClear")
    /\ Normal
    /\ ClearSelection
    /\ Quiet
    /\ UNCHANGED <<fixed, view, modes, on_path, installed_ids, running>>

\* A slip: the quick launch takes the first checked entry when there is one.
KeyEnterFirstChecked ==
    /\ Took("KeyEnter")
    /\ Normal
    /\ LET first_checked == IF SelectedEntries = <<>> THEN None
                            ELSE Some(SelectedEntries[1]) IN
       \E has_tmux \in BOOLEAN :
       \E tmux_var \in IF has_tmux /\ \E k \in 1..Len(first_checked) :
                                         IsInstalled(first_checked[k])
                       THEN TmuxEnv ELSE {None} :
       \E oks \in ExitStatuses([k \in 1..Len(first_checked) |->
                                    has_tmux /\ IsInstalled(first_checked[k])]) :
        LET acc == Outcome(None, <<>>, on_path, <<>>)
            checked == [acc EXCEPT !.events = << Ev("has_tmux", <<>>, has_tmux) >>]
            done ==
                IF first_checked = None
                THEN SetStatus(acc, <<>>, "No app focused to launch.", <<>>)
                ELSE IF ~has_tmux
                THEN SetStatus(checked, <<>>, "tmux is required for launch.",
                               TmuxInstallHint(platform))
                ELSE IF ~IsInstalled(first_checked[1])
                THEN SetStatus(checked, first_checked[1].id, "is not installed",
                               first_checked[1].name)
                ELSE LaunchReport(checked, first_checked[1], tmux_var, oks[1])
        IN  /\ status_set' = done.status
            /\ spawned' = done.spawned
            /\ events' = done.events
    /\ UNCHANGED <<fixed, view, modes, on_path, installed_ids, selected_ids, running>>

\* KeyCode::Enter | KeyCode::Char('\r'): quick launch of the focused entry
KeyEnter ==
    /\ Took("KeyEnter")
    /\ Normal
    /\ \E has_tmux \in BOOLEAN :
       \E tmux_var \in IF has_tmux /\ \E k \in 1..Len(CurrentEntry) :
                                         IsInstalled(CurrentEntry[k])
                       THEN TmuxEnv ELSE {None} :
       \E oks \in ExitStatuses([k \in 1..Len(CurrentEntry) |->
                                    has_tmux /\ IsInstalled(CurrentEntry[k])]) :
        LET acc == Outcome(None, <<>>, on_path, <<>>)
            checked == [acc EXCEPT !.events = << Ev("has_tmux", <<>>, has_tmux) >>]
            done ==
                IF CurrentEntry = None
                THEN SetStatus(acc, <<>>, "No app focused to launch.", <<>>)
                ELSE IF ~has_tmux
                THEN SetStatus(checked, <<>>, "tmux is required for launch.",
                               TmuxInstallHint(platform))
                ELSE IF ~IsInstalled(CurrentEntry[1])
                THEN SetStatus(checked, CurrentEntry[1].id, "is not installed",
                               CurrentEntry[1].name)
                ELSE LaunchReport(checked, CurrentEntry[1], tmux_var, oks[1])
        IN  /\ status_set' = done.status
            /\ spawned' = done.spawned
            /\ events' = done.events
    /\ UNCHANGED <<fixed, view, modes, on_path, installed_ids, selected_ids, running>>

\* KeyCode::Char('i') | KeyCode::Char('I')
KeyInstall ==
    /\ Took("KeyInstall")
    /\ Normal
    /\ LET targets == SelectedEntries
       IN  IF targets = <<>>
           THEN /\ Says("No app selected to install.", <<>>)
                /\ UNCHANGED <<fixed, view, on_path, installed_ids>>
           ELSE IF platform = "Unknown"
           THEN /\ Says("Unknown platform. Cannot install.", <<>>)
                /\ UNCHANGED <<fixed, view, on_path, installed_ids>>
           ELSE \E oks \in ExitStatuses([k \in 1..Len(targets) |->
                       /\ ~IsInstalled(targets[k])
                       /\ CommandForPlatform(targets[k].install, platform) # None]) :
                  LET done == InstallLoop(targets, oks, 1,
                                          Outcome(None, <<>>, on_path, <<>>))
                  IN  /\ status_set' = done.status
                      /\ spawned' = done.spawned
                      /\ on_path' = done.on_path
                      /\ UNCHANGED <<ambient, selected_tab, selected_category,
                                     search_input>>
                      /\ AfterBatch(done)
    /\ UNCHANGED <<modes, selected_ids, running>>

\* A slip: the dialog opens with the choice the last one was left on.
EnterConfirmKeepsChoice(installed_targets) ==
    /\ confirm_mode' = TRUE
    /\ UNCHANGED confirm_selected
    /\ confirm_action' = Some(installed_targets)

\* The uninstall key opening the confirmation dialog.
EnterConfirm(installed_targets) ==
    /\ confirm_mode' = TRUE
    /\ confirm_selected' = TRUE
    /\ confirm_action' = Some(installed_targets)

\* KeyCode::Char('u') | KeyCode::Char('U')
KeyUninstall ==
    /\ Took("KeyUninstall")
    /\ Normal
    /\ LET targets == SelectedEntries
           installed_targets == InstalledTargets(targets)
           not_installed == SelectSeq(targets, LAMBDA t : ~IsInstalled(t))
       IN  IF targets = <<>>
           THEN /\ Says("No app selected to uninstall.", <<>>)
                /\ UNCHANGED <<confirm_mode, confirm_selected, confirm_action>>
           ELSE IF platform = "Unknown"
           THEN /\ Says("Unknown platform. Cannot uninstall.", <<>>)
                /\ UNCHANGED <<confirm_mode, confirm_selected, confirm_action>>
           ELSE IF installed_targets = <<>>
           THEN /\ IF not_installed # <<>>
                   THEN LET names == Join([i \in 1..Len(not_installed) |->
                                                not_installed[i].name])
                        IN  /\ status_set' = Some(Status("not installed.", names))
                            /\ spawned' = <<>>
                            /\ events' =
                                 << Ev("set_status", <<>>, Status("not installed.", names)),
                                    Ev("log", <<>>, [level |-> "Info", msg |-> "not installed"]) >>
                   ELSE Says("No uninstall command defined for selected apps on this platform.", <<>>)
                /\ UNCHANGED <<confirm_mode, confirm_selected, confirm_action>>
           ELSE /\ EnterConfirm(installed_targets)
                /\ Says("Press Enter to confirm uninstall, Esc to cancel.", <<>>)
    /\ UNCHANGED <<fixed, view, on_path, installed_ids, selected_ids, search_mode,
                   running>>

\* A slip: without tmux the launch key goes through the targets all the same.
KeyLaunchArmNoTmuxCheck ==
    /\ Took("KeyLaunch")
    /\ Normal
    /\ LET targets == IF selected_ids = {} THEN CurrentEntry ELSE SelectedEntries
       IN  \E has_tmux \in BOOLEAN :
           \E tmux_var \in IF has_tmux /\ \E k \in 1..Len(targets) :
                                             IsInstalled(targets[k])
                           THEN TmuxEnv ELSE {None} :
           \E oks \in ExitStatuses([k \in 1..Len(targets) |->
                                        has_tmux /\ IsInstalled(targets[k])]) :
             LET acc == Outcome(None, <<>>, on_path, <<>>)
                 checked == [acc EXCEPT !.events = << Ev("has_tmux", <<>>, has_tmux) >>]
                 done ==
                     IF targets = <<>>
                     THEN SetStatus(acc, <<>>, "No app selected or focused to launch.",
                                    <<>>)
                     ELSE LaunchLoop(targets, tmux_var, oks, 1, checked)
             IN  /\ status_set' = done.status
                 /\ spawned' = done.spawned
                 /\ events' = done.events
    /\ UNCHANGED <<catalog, committed, now, tui, sanitizing, logging, resolved, view,
                   modes, on_path, installed_ids, selected_ids, running>>

\* KeyCode::Char('l') | KeyCode::Char('L')
KeyLaunchArm ==
    /\ Took("KeyLaunch")
    /\ Normal
    /\ LET targets == IF selected_ids = {} THEN CurrentEntry ELSE SelectedEntries
       IN  \E has_tmux \in BOOLEAN :
           \E tmux_var \in IF has_tmux /\ \E k \in 1..Len(targets) :
                                             IsInstalled(targets[k])
                           THEN TmuxEnv ELSE {None} :
           \E oks \in ExitStatuses([k \in 1..Len(targets) |->
                                        has_tmux /\ IsInstalled(targets[k])]) :
             LET acc == Outcome(None, <<>>, on_path, <<>>)
                 checked == [acc EXCEPT !.events = << Ev("has_tmux", <<>>, has_tmux) >>]
                 done ==
                     IF targets = <<>>
                     THEN SetStatus(acc, <<>>, "No app selected or focused to launch.",
                                    <<>>)
                     ELSE IF ~has_tmux
                     THEN SetStatus(checked, <<>>, "tmux is required for launch.",
                                    TmuxInstallHint(platform))
                     ELSE LaunchLoop(targets, tmux_var, oks, 1, checked)
             IN  /\ status_set' = done.status
                 /\ spawned' = done.spawned
                 /\ events' = done.events
    /\ UNCHANGED <<catalog, committed, now, tui, sanitizing, logging, resolved, view,
                   modes, on_path, installed_ids, selected_ids, running>>

KeyLaunch == KeyLaunchArm /\ UNCHANGED launched

\* A slip: a key without an arm clears the selection.
KeyIgnoredClears ==
    /\ Took("KeyIgnored")
    /\ Normal
    /\ selected_ids' = {}
    /\ Quiet
    /\ UNCHANGED <<fixed, view, modes, on_path, installed_ids, running>>

\* `_ => {}`
KeyIgnored ==
    /\ Took("KeyIgnored")
    /\ Normal
    /\ Quiet
    /\ UNCHANGED <<fixed, view, modes, on_path, installed_ids, selected_ids, running>>

Next ==
    \/ NoEvent
    \/ SearchEsc \/ SearchEnter \/ SearchBackspace \/ SearchChar \/ SearchIgnored
    \/ ConfirmEnterYes \/ ConfirmEnterNo \/ ConfirmLeft \/ ConfirmRight
    \/ ConfirmCancel \/ ConfirmIgnored
    \/ KeyQuit \/ KeyDown \/ KeyUp \/ KeyTab \/ KeyBackTab \/ KeyLeft \/ KeyRight
    \/ KeySpace \/ KeySlash \/ KeyEsc \/ KeyClear \/ KeyEnter
    \/ KeyInstall \/ KeyUninstall \/ KeyLaunch \/ KeyIgnored

Spec == Init /\ [][Next]_vars

\* The same loop with the history of the search recorded: '/' notes the query
\* it finds, Esc and Enter in search mode forget it.

NextSearch ==
    \/ NoEvent
    \/ SearchEscArm /\ committed' = None
    \/ SearchEnterArm /\ committed' = None
    \/ SearchBackspace \/ SearchChar \/ SearchIgnored
    \/ ConfirmEnterYes \/ ConfirmEnterNo \/ ConfirmLeft \/ ConfirmRight
    \/ ConfirmCancel \/ ConfirmIgnored
    \/ KeyQuit \/ KeyDown \/ KeyUp \/ KeyTab \/ KeyBackTab \/ KeyLeft \/ KeyRight
    \/ KeySpace
    \/ KeySlashArm /\ committed' = Some(search_input)
    \/ KeyEsc \/ KeyClear \/ KeyEnter
    \/ KeyInstall \/ KeyUninstall \/ KeyLaunch \/ KeyIgnored

SpecSearch == Init /\ [][NextSearch]_vars

\* The same loop on a host of its own: Linux, a catalog of the one entry
\* "X Control", and a keyboard with the letters of a few queries.

\* Longest search query the user types on this host.
MaxScenarioQueryLen == 2

\* Characters the user types in search mode on this host.
ScenarioAlphabet == {"x", "c", "z", "q", " "}

InitScenario ==
    /\ entries = <<EntryXControl>>
    /\ platform = "Linux"
    /\ on_path \in SUBSET {"xctl"}
    /\ Constructed

NextScenario ==
    \/ NoEvent
    \/ SearchEsc \/ SearchEnter \/ SearchBackspace
    \/ SearchCharOf(ScenarioAlphabet, MaxScenarioQueryLen)
    \/ SearchIgnored
    \/ ConfirmEnterYes \/ ConfirmEnterNo \/ ConfirmLeft \/ ConfirmRight
    \/ ConfirmCancel \/ ConfirmIgnored
    \/ KeyQuit \/ KeyDown \/ KeyUp \/ KeyTab \/ KeyBackTab \/ KeyLeft \/ KeyRight
    \/ KeySpace \/ KeySlash \/ KeyEsc \/ KeyClear \/ KeyEnter
    \/ KeyInstall \/ KeyUninstall \/ KeyLaunch \/ KeyIgnored

SpecScenario == InitScenario /\ [][NextScenario]_vars

---------------------------------------------------------------------------
\* suspend_tui_for_command (app/actions.rs), statement by statement. The loop
\* calls it with the terminal in raw mode on the alternate screen (main.rs
\* 887-888) and, since it matches on the result, calls it again after an Err.
\* A terminal operation that returns an error has changed nothing.

\* The variables of the loop, which a call of suspend_tui_for_command leaves
\* as they are until it returns.
loop_vars == <<entries, platform, categories, view, modes, on_path, installed_ids,
               selected_ids, running, status_set, arm, spawned, typed, committed,
               events, now, launched, logging, resolved>>

\* The statement fails: `?` returns its error at once.
ReturnErr ==
    /\ pc' = "returned"
    /\ result' = Some("Err")
    /\ UNCHANGED <<raw_mode, alt_screen, run_result, loop_vars, sanitizing>>

\* The loop calls suspend_tui_for_command(terminal, &message, || ..).
SuspendCall ==
    /\ pc \in {"idle", "returned"}
    /\ pc' = "show_transient_message"
    /\ run_result' = None
    /\ result' = None
    /\ UNCHANGED <<raw_mode, alt_screen, loop_vars, sanitizing>>

\* show_transient_message(terminal, msg)?;
ShowTransientMessage ==
    /\ pc = "show_transient_message"
    /\ \/ /\ pc' = "disable_raw_mode"
          /\ UNCHANGED <<raw_mode, alt_screen, run_result, result, loop_vars, sanitizing>>
       \/ ReturnErr

\* disable_raw_mode()?;
DisableRawMode ==
    /\ pc = "disable_raw_mode"
    /\ \/ /\ raw_mode' = FALSE
          /\ pc' = "LeaveAlternateScreen"
          /\ UNCHANGED <<alt_screen, run_result, result, loop_vars, sanitizing>>
       \/ ReturnErr

\* execute!(io::stdout(), LeaveAlternateScreen)?;
LeaveAlternateScreen ==
    /\ pc = "LeaveAlternateScreen"
    /\ \/ /\ alt_screen' = FALSE
          /\ pc' = "f"
          /\ UNCHANGED <<raw_mode, run_result, result, loop_vars, sanitizing>>
       \/ ReturnErr

\* A slip: `f()?`, so that a command that fails returns at once.
RunCommandOrReturn ==
    /\ pc = "f"
    /\ \E ok \in BOOLEAN :
         /\ run_result' = Some(IF ok THEN "Ok" ELSE "Err")
         /\ pc' = IF ok THEN "EnterAlternateScreen" ELSE "returned"
         /\ result' = IF ok THEN result ELSE Some("Err")
    /\ UNCHANGED <<raw_mode, alt_screen, loop_vars, sanitizing>>

\* let run_result = f();
RunCommand ==
    /\ pc = "f"
    /\ \E ok \in BOOLEAN : run_result' = Some(IF ok THEN "Ok" ELSE "Err")
    /\ pc' = "EnterAlternateScreen"
    /\ UNCHANGED <<raw_mode, alt_screen, result, loop_vars, sanitizing>>

\* execute!(io::stdout(), EnterAlternateScreen)?;
EnterAlternateScreen ==
    /\ pc = "EnterAlternateScreen"
    /\ \/ /\ alt_screen' = TRUE
          /\ pc' = "enable_raw_mode"
          /\ UNCHANGED <<raw_mode, run_result, result, loop_vars, sanitizing>>
       \/ ReturnErr

\* enable_raw_mode()?; run_result
EnableRawMode ==
    /\ pc = "enable_raw_mode"
    /\ \/ /\ raw_mode' = TRUE
          /\ pc' = "returned"
          /\ result' = run_result
          /\ UNCHANGED <<alt_screen, run_result, loop_vars, sanitizing>>
       \/ ReturnErr

NextSuspend ==
    \/ SuspendCall
    \/ ShowTransientMessage
    \/ DisableRawMode
    \/ LeaveAlternateScreen
    \/ RunCommand
    \/ EnterAlternateScreen
    \/ EnableRawMode

SpecSuspend == Init /\ [][NextSuspend]_vars

---------------------------------------------------------------------------
\* The launch key with the clock running and the names of what the launches
\* created kept: the keys that bring an entry under the cursor, the launch
\* key, and the passing of a second.

\* The second that the clock reaches at most.
MaxNow == 1

\* The number of windows and sessions whose names are kept at most.
MaxLaunches == 2

\* The name handed to tmux by a command of launch_in_tmux.
NameOf(command) == IF command.op = "window" THEN command.args[3] ELSE command.args[4]

\* The names of the windows and sessions these commands created, in order.
CreatedNames(commands) ==
    LET created == SelectSeq(commands, LAMBDA command : command.ok)
    IN  [j \in 1..Len(created) |-> NameOf(created[j])]

\* A second passes on the clock Utc::now() reads.
Tick ==
    /\ running
    /\ now < MaxNow
    /\ now' = now + 1
    /\ UNCHANGED <<catalog, committed, launched, tui, sanitizing, logging, resolved,
                   view, modes, on_path, installed_ids, selected_ids, running,
                   status_set, arm, spawned, typed, events>>

\* The launch key, with tmux as it behaves: new-session refuses the name of
\* a session that exists, new-window takes any name.
KeyLaunchRecorded ==
    /\ KeyLaunchArm
    /\ Len(launched) + Len(CreatedNames(spawned')) <= MaxLaunches
    /\ \A j \in 1..Len(spawned') :
          spawned'[j].ok /\ spawned'[j].op = "session" =>
              /\ \A n \in 1..Len(launched) : launched[n] # NameOf(spawned'[j])
              /\ \A n \in 1..(j - 1) :
                    spawned'[n].ok => NameOf(spawned'[n]) # NameOf(spawned'[j])
    /\ launched' = launched \o CreatedNames(spawned')

NextLaunch ==
    \/ KeyTab
    \/ KeyDown
    \/ KeySpace
    \/ KeyLaunchRecorded
    \/ Tick

SpecLaunch == Init /\ [][NextLaunch]_vars

---------------------------------------------------------------------------
\* sanitize_tmux_name (system/tmux.rs) on any string: the input is put
\* together character by character and handed to the function.

\* The length of the input at most.
MaxNameLen == 3

\* The characters of the input: a lower-case letter, an upper-case letter, a
\* digit, the two marks the function keeps, and two characters it does not.
NameAlphabet == {"a", "Z", "7", "-", "_", ".", " "}

\* One more character of the input.
PushNameChar ==
    /\ Len(name_in) < MaxNameLen
    /\ \E ch \in NameAlphabet : name_in' = Append(name_in, ch)
    /\ name_out' = None
    /\ UNCHANGED <<loop_vars, tui>>

\* sanitize_tmux_name(&input)
SanitizeCall ==
    /\ name_out = None
    /\ name_out' = Some(SanitizeTmuxName(name_in))
    /\ UNCHANGED <<name_in, loop_vars, tui>>

NextSanitize ==
    \/ PushNameChar
    \/ SanitizeCall

SpecSanitize == Init /\ [][NextSanitize]_vars

---------------------------------------------------------------------------
\* The installed cache on a host whose PATH also changes behind the program:
\* the keys that lead to a refresh_installed_cache, and a binary appearing
\* on the PATH or leaving it by other hands.

HostPathChanges ==
    /\ running
    /\ \E path \in SUBSET Binaries : path # on_path /\ on_path' = path
    /\ Took("Host")
    /\ Quiet
    /\ UNCHANGED <<catalog, committed, now, launched, tui, sanitizing, logging,
                   resolved, view, modes, installed_ids, selected_ids, running>>

NextCache ==
    \/ HostPathChanges
    \/ KeyTab \/ KeyDown \/ KeySpace
    \/ KeyInstall \/ KeyUninstall \/ ConfirmEnterYes

SpecCache == Init /\ [][NextCache]_vars

---------------------------------------------------------------------------
\* The log queue (app/state.rs, ui/components/footer.rs) with the clock
\* running: calls of App::log from the arms of the loop, the iterations of
\* the loop that draw and then find no event, and the passing of a second.

\* The second that the monotonic clock reaches at most.
MaxInstant == 3

\* The messages and levels log is called with.
LogCalls ==
    { [message |-> "Installed", level |-> "Success"],
      [message |-> "Error", level |-> "Error"] }

\* A second passes on the clock Instant::now() reads.
Elapse ==
    /\ running
    /\ instant < MaxInstant
    /\ instant' = instant + 1
    /\ UNCHANGED <<logs, footer, catalog, committed, now, launched, tui, sanitizing,
                   resolved, view, modes, on_path, installed_ids, selected_ids,
                   running, status_set, arm, spawned, typed, events>>

\* app.log(message, level), called by an arm of the loop.
AppLogCall ==
    /\ running
    /\ arm' = "App::log"
    /\ \E call \in LogCalls :
          /\ logs' = AppLog(logs, call.message, call.level, instant)
          /\ events' = << Ev("log", <<>>, [level |-> call.level, msg |-> call.message]) >>
    /\ UNCHANGED <<instant, footer, catalog, committed, now, launched, tui, sanitizing,
                   resolved, view, modes, on_path, installed_ids, selected_ids,
                   running, status_set, spawned, typed>>

\* terminal.draw(|frame| ui(frame, app)), then event::poll times out (or the
\* event read is not a Press): `continue`.
NoEventDrawn ==
    /\ NoEventArm
    /\ RenderFooter
    /\ UNCHANGED instant

NextLog ==
    \/ Elapse
    \/ AppLogCall
    \/ NoEventDrawn

SpecLog == Init /\ [][NextLog]_vars

---------------------------------------------------------------------------
\* Properties

\* Catalog index i (from 0) passes the tab filter and the search filter.
Visible(i) == MatchesTab(entries[i + 1]) /\ MatchesSearch(entries[i + 1])

\* filtered_indices lists the visible catalog indices, each once, ascending.
FilterIsExact ==
    /\ \A k \in 1..Len(filtered_indices) :
          /\ filtered_indices[k] \in 0..(Len(entries) - 1)
          /\ Visible(filtered_indices[k])
    /\ \A i \in 0..(Len(entries) - 1) :
          Visible(i) => \E k \in 1..Len(filtered_indices) : filtered_indices[k] = i
    /\ \A k \in 1..(Len(filtered_indices) - 1) :
          filtered_indices[k] < filtered_indices[k + 1]

\* The cursor is None on an empty list and a row of the list otherwise.
CursorValid ==
    /\ list_state = None <=> filtered_indices = <<>>
    /\ list_state # None => list_state[1] \in 0..(Len(filtered_indices) - 1)

\* The elements of a sequence.
Range(seq) == { seq[k] : k \in 1..Len(seq) }

\* C1: at every iteration of the event loop, from the state App::new
\* produces onward, filtered_indices is exactly the ascending list of the
\* indices of the entries that pass matches_tab and matches_search.
C1_FilterExactFromNew == FilterIsExact

\* C2: in every reachable state the cursor is None exactly when
\* filtered_indices is empty, and otherwise indexes a row of it.
C2_CursorTracksList == CursorValid

\* C2: move_up has wrapped the cursor from the first row to the last of two.
C2_CursorOnLastRow ==
    arm = "KeyUp" /\ list_state = Some(1) /\ Len(filtered_indices) = 2

\* C3: selected_entries() is the entries whose id is selected, in catalog
\* order, when any id is selected; the focused entry alone when none is; and
\* empty only when nothing is selected and nothing is focused.
C3_SelectedEntriesResolve ==
    /\ selected_ids # {} =>
          /\ \A i \in 1..Len(entries) :
                entries[i].id \in selected_ids <=> entries[i] \in Range(SelectedEntries)
          /\ Range(SelectedEntries) \subseteq Range(entries)
          /\ Len(SelectedEntries) = Cardinality(selected_ids)
          /\ \A j, k \in 1..Len(SelectedEntries) :
                j < k => \E a, b \in 1..Len(entries) :
                            /\ a < b
                            /\ entries[a] = SelectedEntries[j]
                            /\ entries[b] = SelectedEntries[k]
    /\ selected_ids = {} =>
          IF list_state # None /\ list_state[1] < Len(filtered_indices)
          THEN SelectedEntries = <<entries[filtered_indices[list_state[1] + 1] + 1]>>
          ELSE SelectedEntries = <<>>
    /\ SelectedEntries = <<>> => selected_ids = {} /\ CurrentEntry = None

\* C3: one entry is selected while the cursor rests on the other one.
C3_SelectionBesideFocus ==
    /\ Cardinality(selected_ids) = 1
    /\ CurrentEntry # None
    /\ CurrentEntry[1].id \notin selected_ids
    /\ Len(SelectedEntries) = 1

\* The uninstall field of an entry for the detected platform, as the catalog
\* gives it; no platform, no field.
UninstallField(entry) ==
    CASE platform = "Linux" -> <<entry.uninstall.linux>>
      [] platform = "Wsl" -> <<entry.uninstall.wsl>>
      [] platform = "Mac" -> <<entry.uninstall.mac>>
      [] platform = "Windows" -> <<entry.uninstall.windows>>
      [] OTHER -> <<>>

\* A target an uninstall can act on: cached as installed, and its uninstall
\* field for the platform holds more than blanks.
Qualifies(entry) ==
    /\ entry.id \in installed_ids
    /\ UninstallField(entry) # <<>>
    /\ \E k \in 1..Len(UninstallField(entry)[1]) : UninstallField(entry)[1][k] # " "

\* The ids with a binary the PATH resolves after the step.
OnPathIds == { entries[i].id : i \in { j \in 1..Len(entries) : entries[j].binary \in on_path } }

\* C4: the uninstall key opens the confirmation exactly when some resolved
\* target qualifies; the pending list is then the qualifying targets, each
\* once and no other; otherwise the mode stays Normal; no command runs.
C4_UninstallRequest ==
    [][ arm' = "KeyUninstall" =>
          LET targets == SelectedEntries
          IN  /\ confirm_mode' <=> \E k \in 1..Len(targets) : Qualifies(targets[k])
              /\ confirm_mode' =>
                    /\ confirm_action' # None
                    /\ LET pending == confirm_action'[1]
                       IN  /\ \A k \in 1..Len(targets) :
                                 Qualifies(targets[k]) <=> targets[k] \in Range(pending)
                           /\ Range(pending) \subseteq Range(targets)
                           /\ Len(pending) = Cardinality(Range(pending))
              /\ ~confirm_mode' => confirm_action' = None /\ ~search_mode' /\ running'
              /\ spawned' = <<>>
              /\ on_path' = on_path ]_vars

\* C4: on WSL both entries were installed and selected; the request kept the
\* one whose uninstall field is not blank.
C4_MixedRequest ==
    /\ arm = "KeyUninstall"
    /\ confirm_mode
    /\ Cardinality(selected_ids) = 2
    /\ selected_ids \subseteq installed_ids
    /\ Len(confirm_action[1]) = 1

\* C5: Enter on the negative choice, Esc and the cancel key run no command,
\* clear the pending targets, return to Normal and leave installed_ids,
\* filtered_indices, the cursor and selected_ids as they were.
C5_CancelChangesNothing ==
    [][ arm' \in {"ConfirmEnterNo", "ConfirmCancel"} =>
          /\ confirm_mode
          /\ spawned' = <<>>
          /\ on_path' = on_path
          /\ confirm_action' = None
          /\ ~confirm_mode' /\ ~search_mode' /\ running'
          /\ installed_ids' = installed_ids
          /\ filtered_indices' = filtered_indices
          /\ list_state' = list_state
          /\ selected_ids' = selected_ids ]_vars

\* C5: the dialog was left by Enter on "No" with both entries still installed.
C5_LeftByNo ==
    /\ arm = "ConfirmEnterNo"
    /\ ~confirm_mode
    /\ confirm_action = None
    /\ Cardinality(installed_ids) = 2

\* C6: Enter on the affirmative choice runs the uninstall command of every
\* pending target, in list order, then rebuilds the installed cache and the
\* filter, and ends in Normal with no pending targets.
C6_ConfirmedUninstall ==
    [][ arm' = "ConfirmEnterYes" =>
          /\ confirm_mode /\ confirm_selected /\ confirm_action # None
          /\ LET pending == confirm_action[1]
             IN  /\ Len(spawned') = Len(pending)
                 /\ \A k \in 1..Len(pending) :
                       /\ spawned'[k].op = "uninstall"
                       /\ spawned'[k].id = pending[k].id
                       /\ <<spawned'[k].args[2]>> = UninstallField(pending[k])
                 /\ on_path' = on_path \
                       { pending[k].binary : k \in { j \in 1..Len(pending) : spawned'[j].ok } }
          /\ installed_ids' = OnPathIds'
          /\ FilterIsExact' /\ CursorValid'
          /\ ~confirm_mode' /\ confirm_action' = None /\ ~search_mode' /\ running' ]_vars

\* C6: two pending targets were uninstalled, x before z, and both are gone.
C6_TwoUninstalled ==
    /\ arm = "ConfirmEnterYes"
    /\ Len(spawned) = 2
    /\ spawned[1].id = <<"x">> /\ spawned[2].id = <<"z">>
    /\ installed_ids = {}

\* The two arms of Enter in the confirmation dialog.
EnterArms == {"ConfirmEnterYes", "ConfirmEnterNo"}

\* C7 as stated: Left (and 'h') selects the negative choice and Right (and
\* 'l') the affirmative one, so Left then Enter runs no uninstall command
\* and Right then Enter runs the pending ones.
C7_LeftNoRightYes ==
    [][ /\ arm' = "ConfirmLeft" => ~confirm_selected'
        /\ arm' = "ConfirmRight" => confirm_selected'
        /\ arm = "ConfirmLeft" /\ arm' \in EnterArms => spawned' = <<>>
        /\ arm = "ConfirmRight" /\ arm' \in EnterArms => spawned' # <<>> ]_vars

\* C7 as amended: Left (and 'h') selects the affirmative choice and Right
\* (and 'l') the negative one, so Right then Enter runs no uninstall command
\* and closes the dialog, and Left then Enter runs the pending uninstalls.
C7_LeftYesRightNo ==
    [][ /\ arm' = "ConfirmLeft" => confirm_selected' /\ confirm_mode'
        /\ arm' = "ConfirmRight" => ~confirm_selected' /\ confirm_mode'
        /\ arm = "ConfirmRight" /\ arm' \in EnterArms =>
              /\ spawned' = <<>>
              /\ ~confirm_mode' /\ confirm_action' = None
        /\ arm = "ConfirmLeft" /\ arm' \in EnterArms =>
              /\ spawned' # <<>>
              /\ Len(spawned') = Len(confirm_action[1])
              /\ \A k \in 1..Len(spawned') : spawned'[k].op = "uninstall" ]_vars

\* C7: Right was pressed, then Enter: the dialog closed, nothing ran and the
\* entry is still installed.
C7_RightThenEnter ==
    /\ arm = "ConfirmEnterNo"
    /\ ~confirm_selected
    /\ ~confirm_mode
    /\ spawned = <<>>
    /\ installed_ids # {}

\* C8: whenever the confirmation dialog opens, the choice is affirmative,
\* whatever it was before; and Enter right after the uninstall request that
\* opened it runs the pending uninstalls.
C8_OpensOnYes ==
    [][ /\ ~confirm_mode /\ confirm_mode' => confirm_selected' /\ arm' = "KeyUninstall"
        /\ arm = "KeyUninstall" /\ confirm_mode /\ arm' \in EnterArms =>
              /\ arm' = "ConfirmEnterYes"
              /\ spawned' # <<>>
              /\ Len(spawned') = Len(confirm_action[1])
              /\ \A k \in 1..Len(spawned') :
                    spawned'[k].op = "uninstall" /\ spawned'[k].id = confirm_action[1][k].id ]_vars

\* C8: the uninstall request has just opened the dialog, on "Yes".
C8_DialogJustOpened ==
    /\ arm = "KeyUninstall"
    /\ confirm_mode
    /\ confirm_selected
    /\ confirm_action # None

\* C9 as stated: Esc in search mode returns to Normal with search_input as
\* it was last committed (as '/' found it when it opened this search, Enter
\* having closed any earlier one), whatever was typed or deleted since, and
\* with filtered_indices the list for that query (where it was the list for
\* the query before the key).
C9_EscRestoresCommitted ==
    [][ arm' = "SearchEsc" =>
          /\ ~search_mode' /\ ~confirm_mode' /\ running'
          /\ committed # None
          /\ search_input' = committed[1]
          /\ FilterIsExact => FilterIsExact' ]_vars

\* C9 as amended: Esc in search mode returns to Normal and leaves
\* search_input, filtered_indices and the cursor as the last edit left them:
\* nothing typed or deleted since the search was opened is discarded.
C9_EscKeepsEdits ==
    [][ arm' = "SearchEsc" =>
          /\ search_mode
          /\ ~search_mode' /\ ~confirm_mode' /\ running'
          /\ search_input' = search_input
          /\ filtered_indices' = filtered_indices
          /\ list_state' = list_state
          /\ FilterIsExact => FilterIsExact'
          /\ spawned' = <<>> ]_vars

\* C9: Esc has closed the search; the "C" in the query is still there and
\* still filters the list.
C9_TypedQueryKept ==
    /\ arm = "SearchEsc"
    /\ ~search_mode
    /\ committed = None
    /\ search_input = <<"C">>
    /\ filtered_indices = <<0>>
    /\ list_state = Some(0)

IsStatus(e, msg) == e.kind = "set_status" /\ e.detail.msg = msg

\* The recorded call e is log at this level.
IsLog(e, level) == e.kind = "log" /\ e.detail.level = level

\* The recorded call e touches the terminal or runs a command.
IsRun(e) == e.kind \in {"suspend", "spawn", "resume"}

\* The step is an install request that reaches the loop over its targets.
InstallBatch ==
    arm' = "KeyInstall" /\ SelectedEntries # <<>> /\ platform # "Unknown"

\* The step is a confirmed uninstall that reaches the loop over its targets.
UninstallBatch == arm' = "ConfirmEnterYes" /\ confirm_action # None

\* The calls of the step at place i and after are about target k + 1 of the
\* batch, or, after its last target, the refresh that ends the batch.
GoesOn(targets, k, i) ==
    /\ i <= Len(events')
    /\ IF k < Len(targets)
       THEN events'[i].id = targets[k + 1].id
       ELSE events'[i].kind = "refresh_installed_cache"

\* C11: in an install batch, a target that is in installed_ids when the
\* request is made has no command run and no suspension of the terminal; it
\* is reported by a status and an Info log entry saying it is already
\* installed, and the next call of the batch is about the next target (or, if
\* it was the last, the refresh that ends the batch).
C11_InstalledTargetSkipped ==
    [][ InstallBatch =>
          \A k \in 1..Len(SelectedEntries) :
            LET target == SelectedEntries[k]
            IN  target.id \in installed_ids =>
                  /\ \A j \in 1..Len(spawned') : spawned'[j].id # target.id
                  /\ \A i \in 1..Len(events') :
                        events'[i].id = target.id => ~IsRun(events'[i])
                  /\ \E i \in 1..(Len(events') - 1) :
                        /\ events'[i].id = target.id
                        /\ IsStatus(events'[i], "already installed")
                        /\ events'[i + 1].id = target.id
                        /\ IsLog(events'[i + 1], "Info")
                        /\ GoesOn(SelectedEntries, k, i + 2) ]_vars

\* An install of X and Z, X installed already: X was skipped as installed
\* and the command of Z ran after that.
C11_SkippedThenInstalled ==
    /\ arm = "KeyInstall"
    /\ Len(events) > 3
    /\ events[1].id = <<"x">> /\ IsStatus(events[1], "already installed")
    /\ events[2].id = <<"x">> /\ IsLog(events[2], "Info")
    /\ events[3].id = <<"z">>
    /\ Len(spawned) = 1 /\ spawned[1].id = <<"z">> /\ spawned[1].op = "install"

\* The step is an uninstall request that reaches the resolution of its
\* targets' commands.
UninstallRequest ==
    arm' = "KeyUninstall" /\ SelectedEntries # <<>> /\ platform # "Unknown"

\* command_for_platform finds no command in these fields on this platform.
NoCommand(commands) ==
    LET cmd == CommandForPlatform(commands, platform)
    IN  cmd = None \/ Trim(cmd[1]) = <<>>

\* The step runs no command for the target and does not suspend the terminal
\* for it.
Untouched(target) ==
    /\ \A j \in 1..Len(spawned') : spawned'[j].id # target.id
    /\ \A i \in 1..Len(events') : events'[i].id = target.id => ~IsRun(events'[i])

\* The install half of C12: a target of an install batch that is not
\* installed and has no install command on the platform is left untouched and
\* reported by a status about it, and the batch goes on after that status.
NoInstallCommandReported ==
    InstallBatch =>
      \A k \in 1..Len(SelectedEntries) :
        LET target == SelectedEntries[k]
        IN  ~IsInstalled(target) /\ NoCommand(target.install) =>
              /\ Untouched(target)
              /\ \E i \in 1..Len(events') :
                    /\ events'[i].id = target.id
                    /\ IsStatus(events'[i], "No install command defined")
                    /\ GoesOn(SelectedEntries, k, i + 1)

\* The uninstall half of C12: an installed target of an uninstall request
\* that has no uninstall command on the platform is left untouched and some
\* status of the step says that no uninstall command is defined, and the
\* installed targets that have a command go on to the confirmation.
NoUninstallCommandReported ==
    UninstallRequest =>
      \A k \in 1..Len(SelectedEntries) :
        LET target == SelectedEntries[k]
        IN  IsInstalled(target) /\ NoCommand(target.uninstall) =>
              /\ Untouched(target)
              /\ \E i \in 1..Len(events') :
                    IsStatus(events'[i],
                             "No uninstall command defined for selected apps on this platform.")
              /\ \A j \in 1..Len(SelectedEntries) :
                    LET other == SelectedEntries[j]
                    IN  IsInstalled(other) /\ ~NoCommand(other.uninstall) =>
                          /\ confirm_action' # None
                          /\ \E n \in 1..Len(confirm_action'[1]) :
                                confirm_action'[1][n].id = other.id

\* C12: a target of an install or of an uninstall whose command for the
\* platform resolves to None has no process spawned and no suspension of the
\* terminal, is reported by a "no command defined" status, and the remaining
\* targets are still processed.
C12_NoCommandSkippedAndReported ==
    [][ NoInstallCommandReported /\ NoUninstallCommandReported ]_vars

\* The install half on its own.
C12_InstallHalf == [][ NoInstallCommandReported ]_vars

\* The targets of an install batch whose command is run: not installed, and
\* with an install command on the platform.
InstallEligible ==
    SelectSeq(SelectedEntries,
              LAMBDA target : ~IsInstalled(target) /\ ~NoCommand(target.install))

\* The step ran a command for each of these targets, in their order.
AllAttempted(eligible) ==
    /\ Len(spawned') = Len(eligible)
    /\ \A j \in 1..Len(eligible) : spawned'[j].id = eligible[j].id

\* Command j of the step is followed, once the terminal is taken back, by an
\* Error log entry and by this status, both about its target.
FailureRecorded(j, failed_msg) ==
    \E i \in 1..(Len(events') - 3) :
        /\ events'[i].kind = "spawn" /\ events'[i].detail = j
        /\ events'[i + 1].kind = "resume"
        /\ events'[i + 2].id = spawned'[j].id /\ IsLog(events'[i + 2], "Error")
        /\ events'[i + 3].id = spawned'[j].id /\ IsStatus(events'[i + 3], failed_msg)

\* C13: in an install batch and in a confirmed uninstall batch, a command
\* that cannot be spawned or exits without success is recorded by a status
\* and by an Error log entry about its target, every eligible target of the
\* batch has its command attempted all the same, and after the batch the
\* loop is running in Normal mode.
C13_FailureDoesNotAbort ==
    [][ /\ InstallBatch =>
             /\ \A j \in 1..Len(spawned') :
                    ~spawned'[j].ok =>
                        /\ FailureRecorded(j, "Install failed")
                        /\ AllAttempted(InstallEligible)
             /\ Normal'
        /\ UninstallBatch =>
             /\ \A j \in 1..Len(spawned') :
                    ~spawned'[j].ok =>
                        /\ FailureRecorded(j, "Uninstall failed")
                        /\ AllAttempted(confirm_action[1])
             /\ Normal' ]_vars

\* An install of X and Z in which the command of X failed and the command of
\* Z was run after it.
C13_FailedThenAttempted ==
    /\ arm = "KeyInstall"
    /\ Len(spawned) = 2
    /\ spawned[1].id = <<"x">> /\ ~spawned[1].ok
    /\ spawned[2].id = <<"z">> /\ spawned[2].ok
    /\ \E i \in 1..Len(events) : events[i].id = <<"x">> /\ IsLog(events[i], "Error")
    /\ Normal

\* The places in the calls of the step where this call is made.
CallsOf(kind) == { i \in 1..Len(events') : events'[i].kind = kind }

\* C14: an install batch and a confirmed uninstall batch end, whatever the
\* commands of the targets did, with one refresh_installed_cache followed by
\* one refresh_filter, the only calls of either in the step, and both after
\* the last call about a target; the cache and the list are then exact.
C14_OneRefreshAfterBatch ==
    [][ InstallBatch \/ UninstallBatch =>
          LET n == Len(events')
          IN  /\ n >= 2
              /\ CallsOf("refresh_installed_cache") = {n - 1}
              /\ CallsOf("refresh_filter") = {n}
              /\ \A i \in 1..(n - 2) : events'[i].id # <<>>
              /\ installed_ids' = InstalledCache'
              /\ FilterIsExact' ]_vars

\* A confirmed uninstall of X and Z in which the command of Z, the last,
\* failed, and the two refreshes ended the batch.
C14_RefreshedAfterFailure ==
    /\ arm = "ConfirmEnterYes"
    /\ Len(spawned) = 2
    /\ spawned[1].ok /\ ~spawned[2].ok
    /\ Len(events) = 14
    /\ events[13].kind = "refresh_installed_cache"
    /\ events[14].kind = "refresh_filter"
    /\ installed_ids = {<<"z">>}

\* ---- the terminal

\* C15: whenever suspend_tui_for_command has returned, by its last
\* expression or by the `?` of any of its statements, the terminal is in raw
\* mode on the alternate screen.
C15_TerminalRestoredOnReturn ==
    pc = "returned" => raw_mode /\ alt_screen

\* ---- launches

\* The step is a launch request, by the launch key or by Enter, that has
\* found its targets and looked for tmux, with this answer.
LaunchRequest(found) ==
    /\ arm' \in {"KeyLaunch", "KeyEnter"}
    /\ events' # <<>>
    /\ events'[1].kind = "has_tmux"
    /\ events'[1].detail = found

\* C16: a launch request with targets that does not find tmux runs no
\* command and makes no call about any target: its one report is the status
\* that tmux is required, with the install hint of the platform, and the
\* loop stays in Normal mode.
C16_NoTmuxAbortsLaunch ==
    [][ LaunchRequest(FALSE) =>
          /\ spawned' = <<>>
          /\ Len(events') = 2
          /\ events'[2].id = <<>>
          /\ IsStatus(events'[2], "tmux is required for launch.")
          /\ events'[2].detail.arg =
                CASE platform \in {"Linux", "Wsl"} -> "Install tmux: sudo apt install tmux"
                  [] platform = "Unknown" -> "Install tmux for your platform."
          /\ status_set' = Some(events'[2].detail)
          /\ Normal' ]_vars

\* The launch key with X and Z selected and no tmux to be found: nothing ran
\* and the status is the hint.
C16_BatchRefusedWithoutTmux ==
    /\ arm = "KeyLaunch"
    /\ selected_ids = {<<"x">>, <<"z">>}
    /\ installed_ids = {<<"x">>, <<"z">>}
    /\ LET e == events[1] IN e.kind = "has_tmux" /\ ~e.detail
    /\ status_set = Some(Status("tmux is required for launch.",
                                "Install tmux: sudo apt install tmux"))
    /\ spawned = <<>>

\* The targets of the launch key: the selection, or the focused entry when
\* nothing is selected.
LaunchTargets == IF selected_ids = {} THEN CurrentEntry ELSE SelectedEntries

\* The step is the launch key reaching the loop over its targets.
LaunchBatch == arm' = "KeyLaunch" /\ LaunchRequest(TRUE)

\* The calls of the step from place i on are about target k + 1 of the
\* launch batch, or there are none when target k was the last.
LaunchGoesOn(targets, k, i) ==
    IF k < Len(targets)
    THEN i <= Len(events') /\ events'[i].id = targets[k + 1].id
    ELSE i = Len(events') + 1

\* C17: in a launch batch, a target that is not in installed_ids has no
\* command run and is reported by a status (and an Info log entry); a target
\* whose tmux command cannot be run or does not succeed is reported by an
\* Error log entry and the status "Launch failed"; after either, the calls of
\* the batch go on with the next target.
C17_LaunchSkipsAndGoesOn ==
    [][ LaunchBatch =>
          \A k \in 1..Len(LaunchTargets) :
            LET target == LaunchTargets[k]
            IN  /\ target.id \notin installed_ids =>
                     /\ Untouched(target)
                     /\ \E i \in 1..(Len(events') - 1) :
                           /\ events'[i].id = target.id
                           /\ IsStatus(events'[i], "is not installed yet")
                           /\ events'[i + 1].id = target.id
                           /\ IsLog(events'[i + 1], "Info")
                           /\ LaunchGoesOn(LaunchTargets, k, i + 2)
                /\ target.id \in installed_ids =>
                     \E j \in 1..Len(spawned') :
                        /\ spawned'[j].id = target.id
                        /\ spawned'[j].program = "tmux"
                        /\ ~spawned'[j].ok =>
                             \E i \in 1..(Len(events') - 2) :
                                /\ events'[i].kind = "spawn" /\ events'[i].detail = j
                                /\ events'[i + 1].id = target.id
                                /\ IsLog(events'[i + 1], "Error")
                                /\ events'[i + 2].id = target.id
                                /\ IsStatus(events'[i + 2], "Launch failed")
                                /\ LaunchGoesOn(LaunchTargets, k, i + 3) ]_vars

\* A launch of X and Z: the tmux command for X failed, and Z, which is not
\* installed, was reported after it.
C17_FailedThenSkipped ==
    /\ arm = "KeyLaunch"
    /\ Len(spawned) = 1 /\ spawned[1].id = <<"x">> /\ ~spawned[1].ok
    /\ Len(events) = 7
    /\ events[4].id = <<"x">> /\ IsLog(events[4], "Error")
    /\ events[5].id = <<"x">> /\ IsStatus(events[5], "Launch failed")
    /\ events[6].id = <<"z">> /\ IsStatus(events[6], "is not installed yet")
    /\ events[7].id = <<"z">> /\ IsLog(events[7], "Info")

\* The places in the calls of the step where launch_in_tmux reads TMUX.
EnvReads == CallsOf("env::var")

\* The value read is set and has a character that is not white space.
NonBlank(tmux_var) ==
    tmux_var # None /\ \E n \in 1..Len(tmux_var[1]) : ~IsWhitespace(tmux_var[1][n])

\* C18: every call of launch_in_tmux issues one tmux command: new-window
\* with a name of prefix "th-" if the TMUX variable it read is set and not
\* blank, and otherwise new-session, detached, with a name of prefix
\* "tuihub-"; when the command succeeds the caller logs and reports a window
\* in the first case and a session in the second, with different messages.
C18_WindowIffInsideTmux ==
    [][ arm' \in {"KeyLaunch", "KeyEnter"} =>
          /\ Cardinality(EnvReads) = Len(spawned')
          /\ CallsOf("spawn") = { i + 1 : i \in EnvReads }
          /\ \A i \in EnvReads :
               LET tmux_var == events'[i].detail
                   command == spawned'[events'[i + 1].detail]
                   name == IF NonBlank(tmux_var) THEN command.args[3] ELSE command.args[4]
               IN  /\ command.program = "tmux"
                   /\ NonBlank(tmux_var) <=> command.args[1] = "new-window"
                   /\ ~NonBlank(tmux_var) <=> command.args[1] = "new-session"
                   /\ IF NonBlank(tmux_var)
                      THEN /\ Len(command.args) = 4
                           /\ command.args[2] = "-n"
                           /\ name.prefix = "th-"
                      ELSE /\ Len(command.args) = 5
                           /\ command.args[2] = "-d" /\ command.args[3] = "-s"
                           /\ name.prefix = "tuihub-"
                   /\ command.ok =>
                        /\ i + 3 <= Len(events')
                        /\ events'[i + 2].kind = "log"
                        /\ events'[i + 2].detail.msg =
                              IF NonBlank(tmux_var) THEN "Window opened" ELSE "Session opened"
                        /\ events'[i + 3].kind = "set_status"
                        /\ events'[i + 3].detail.msg =
                              IF NonBlank(tmux_var) THEN "Launched in tmux window"
                                                    ELSE "Launched in tmux session" ]_vars

\* A launch with TMUX set to a blank: a detached session was created and
\* reported as a session.
C18_BlankTmuxGivesSession ==
    /\ arm = "KeyLaunch"
    /\ Len(events) >= 5
    /\ events[2].kind = "env::var" /\ events[2].detail = Some(<<" ">>)
    /\ spawned[1].args[1] = "new-session" /\ spawned[1].ok
    /\ IsStatus(events[5], "Launched in tmux session")

\* C19: the names of the windows and sessions that the launches of the
\* program created are all different, whether the launches were of one entry
\* at different times or of different entries of one batch.
C19_LaunchNamesNeverRepeat ==
    \A i, j \in 1..Len(launched) : i # j => launched[i] # launched[j]

\* ---- sanitize_tmux_name

\* The characters of [A-Za-z0-9_-].
NameChars == AsciiAlphanumeric \cup {"_", "-"}

\* The input with each character outside [A-Za-z0-9_-] replaced by a hyphen.
Replaced(input) ==
    [k \in 1..Len(input) |-> IF input[k] \in NameChars THEN input[k] ELSE "-"]

\* C20: what sanitize_tmux_name returns is not empty, is made of characters
\* of [A-Za-z0-9_-] only and neither starts nor ends with a hyphen; it is the
\* input with each character outside that set replaced by a hyphen and the
\* hyphens at both ends taken off, or "app" when that leaves nothing.
C20_SanitizedName ==
    name_out # None =>
        LET out == name_out[1]
            replaced == Replaced(name_in)
        IN  /\ out # <<>>
            /\ \A k \in 1..Len(out) : out[k] \in NameChars
            /\ out[1] # "-" /\ out[Len(out)] # "-"
            /\ IF \A k \in 1..Len(replaced) : replaced[k] = "-"
               THEN out = <<"a", "p", "p">>
               ELSE \E lo, hi \in 1..Len(replaced) :
                       /\ lo <= hi
                       /\ out = SubSeq(replaced, lo, hi)
                       /\ \A k \in 1..Len(replaced) :
                             k < lo \/ k > hi => replaced[k] = "-"

\* A character outside the set between two that are kept became a hyphen.
C20_InnerReplaced ==
    /\ name_in = <<"a", ".", "Z">>
    /\ name_out = Some(<<"a", "-", "Z">>)

\* ---- the log queue

\* The entries of the queue at or past this age at this instant.
Aged(queue, at, age) == { k \in 1..Len(queue) : at - queue[k].created_at >= age }

\* The queue without its entries of three seconds and more: they are its
\* oldest, so the first ones.
Fresh(queue, at) == SubSeq(queue, Cardinality(Aged(queue, at, 3)) + 1, Len(queue))

\* C21: whatever the calls of log and the draws, and whenever they happen,
\* the queue holds at most 3 entries, a call of log that finds three entries
\* younger than 3 seconds drops the oldest of them for the new one, and no
\* entry the footer shows was 3 seconds old or more when it was drawn.
C21_LogBoundedAndFresh ==
    [][ /\ Len(logs') <= 3
        /\ \A k \in 1..Len(footer'.logs) :
              footer'.at - footer'.logs[k].created_at < 3
        /\ arm' = "App::log" /\ logs' # logs =>
              LET live == Fresh(logs, instant)
                  new == logs'[Len(logs')]
              IN  /\ new.created_at = instant
                  /\ IF Len(live) = 3
                     THEN logs' = << live[2], live[3], new >>
                     ELSE logs' = Append(live, new) ]_vars

\* The footer was drawn with three entries, and a fourth call of log in the
\* same second has pushed the oldest of them out.
C21_OldestEvicted ==
    /\ arm = "App::log"
    /\ instant = footer.at
    /\ Len(footer.logs) = 3
    /\ Len(logs) = 3
    /\ logs[1] = footer.logs[2] /\ logs[2] = footer.logs[3]
    /\ footer.logs[1].message # footer.logs[2].message

\* ---- the unknown platform

\* The step is one of the four keys that act on targets, pressed with a
\* target to act on.
ActsOnTarget ==
    \/ arm' \in {"KeyInstall", "KeyUninstall"} /\ SelectedEntries # <<>>
    \/ arm' = "KeyLaunch" /\ LaunchTargets # <<>>
    \/ arm' = "KeyEnter" /\ CurrentEntry # None

\* C22: on the Unknown platform the install key, the uninstall key, the
\* launch key and the quick-launch key, pressed with a target, run no
\* command, leave the loop running in Normal mode and set a status (for
\* install and uninstall, the one that says the platform is unknown).
C22_UnknownPlatformDisables ==
    [][ platform = "Unknown" /\ ActsOnTarget =>
          /\ spawned' = <<>>
          /\ Normal'
          /\ status_set' # None
          /\ arm' = "KeyInstall" =>
                status_set'[1].msg = "Unknown platform. Cannot install."
          /\ arm' = "KeyUninstall" =>
                status_set'[1].msg = "Unknown platform. Cannot uninstall." ]_vars

\* ---- the host with the one entry "X Control"

\* The keys that change the tab.
TabKeys == {"KeyTab", "KeyBackTab"}

\* "apt install xctl"
AptInstallXctl ==
    <<"a", "p", "t", " ", "i", "n", "s", "t", "a", "l", "l", " ", "x", "c", "t", "l">>

\* C23: on Linux with the one entry x, its binary xctl not on the PATH:
\* coming to tab All with no query lists the entry and coming to tab
\* Installed lists nothing; the install key pressed with nothing selected
\* and the cursor on the entry runs one command, sh -lc "apt install xctl";
\* and if the command succeeds and xctl then resolves, x is in installed_ids
\* and coming to tab Installed next, from the entry, lists the entry.
C23_InstallFocusedEntry ==
    [][ /\ Len(entries) = 1 /\ entries[1].id = <<"x">> /\ platform = "Linux"
        /\ arm' \in TabKeys /\ "xctl" \notin on_path' /\ search_input' = <<>> =>
              /\ selected_tab' = 0 => filtered_indices' = <<0>>
              /\ selected_tab' = 1 => filtered_indices' = <<>>
        /\ /\ arm' = "KeyInstall"
           /\ "xctl" \notin on_path
           /\ selected_ids = {}
           /\ list_state = Some(0) /\ filtered_indices = <<0>>
           => /\ Len(spawned') = 1
              /\ spawned'[1].program = "sh"
              /\ spawned'[1].args = << "-lc", AptInstallXctl >>
              /\ spawned'[1].ok /\ "xctl" \in on_path' => <<"x">> \in installed_ids'
        /\ /\ arm = "KeyInstall" /\ spawned # <<>> /\ spawned[1].ok
           /\ "xctl" \in on_path
           /\ selected_ids = {}
           /\ list_state = Some(0) /\ filtered_indices = <<0>>
           /\ arm' \in TabKeys /\ selected_tab' = 1
           => filtered_indices' = <<0>> ]_vars

\* The install key, pressed on tab All with nothing selected, has installed
\* the entry under the cursor.
C23_FocusedEntryInstalled ==
    /\ arm = "KeyInstall"
    /\ selected_tab = 0
    /\ selected_ids = {}
    /\ list_state = Some(0)
    /\ Len(spawned) = 1 /\ spawned[1].ok /\ spawned[1].program = "sh"
    /\ installed_ids = {<<"x">>}

\* The name, the description, the category and the id of the entry
\* "X Control", in lower case.
LoweredFields ==
    { <<"x", " ", "c", "o", "n", "t", "r", "o", "l">>, <<"c", "t", "l">>,
      <<"d", "e", "v">>, <<"x">> }

\* The characters of this string stand, in a row, somewhere in that one.
OccursIn(part, whole) ==
    \E at \in 0..(Len(whole) - Len(part)) :
        \A k \in 1..Len(part) : whole[at + k] = part[k]

\* The step edits the query on tab All, where the search alone decides what
\* is listed.
QueryEdited == arm' \in {"SearchChar", "SearchBackspace"} /\ selected_tab' = 0

\* C24 as stated: the search keeps an entry exactly when the query is blank
\* or is, in lower case, part of the lower-cased name, description, category
\* or id; so the query "xc" keeps the entry named "X Control" in
\* filtered_indices, through its name, and the query "zz" leaves it out.
C24_XcKeepsXControl ==
    [][ QueryEdited =>
          /\ search_input' = <<"x", "c">> => filtered_indices' = <<0>>
          /\ search_input' = <<"z", "z">> => filtered_indices' = <<>> ]_vars

\* C24 as amended: the search keeps an entry exactly when the query is blank
\* or is, in lower case, part of the lower-cased name, description, category
\* or id; so the query "x " keeps the entry named "X Control" in
\* filtered_indices, through its name ("x control"), while the queries "xc",
\* which is part of none of the four, and "zz" leave it out.
C24_SubstringOfLoweredField ==
    [][ QueryEdited =>
          /\ filtered_indices' \in { <<0>>, <<>> }
          /\ filtered_indices' = <<0>> <=>
                \/ \A k \in 1..Len(search_input') : search_input'[k] = " "
                \/ \E field \in LoweredFields : OccursIn(search_input', field)
          /\ search_input' = <<"x", " ">> => filtered_indices' = <<0>>
          /\ search_input' = <<"x", "c">> => filtered_indices' = <<>>
          /\ search_input' = <<"z", "z">> => filtered_indices' = <<>> ]_vars

\* The query "x " has just been typed and the entry is listed: of its four
\* fields only the name, lower-cased, has it.
C24_KeptThroughName ==
    /\ arm = "SearchChar"
    /\ selected_tab = 0
    /\ search_input = <<"x", " ">>
    /\ filtered_indices = <<0>>
    /\ list_state = Some(0)

\* ---- the installed cache

\* The ids of the catalog.
CatalogIds == { entries[i].id : i \in 1..Len(entries) }

\* The ids of the entries with a binary among these.
IdsOf(binaries) ==
    { id \in CatalogIds : \E i \in 1..Len(entries) :
                             entries[i].id = id /\ entries[i].binary \in binaries }

\* installed_ids holds ids of the catalog only, and exactly those whose
\* binary resolved at the last refresh.
CacheIsLastProbe ==
    /\ installed_ids \subseteq CatalogIds
    /\ installed_ids = IdsOf(resolved)

\* C25: whatever happens to the PATH, installed_ids is a subset of the ids
\* of the catalog and is the set of the ids whose binary resolved at the most
\* recent refresh_installed_cache; a refresh replaces the set by what
\* resolves now, so one that finds the PATH as the refresh before it found
\* it leaves the set as it is.
C25_CacheIsLastProbe ==
    [][ /\ CacheIsLastProbe
        /\ CacheIsLastProbe'
        /\ CallsOf("refresh_installed_cache") # {} =>
              /\ resolved' = on_path'
              /\ installed_ids' = IdsOf(on_path')
              /\ on_path' = resolved => installed_ids' = installed_ids ]_vars

\* The binary of Z resolved at the last refresh and has since left the PATH
\* by other hands: the cache still says what the refresh found.
C25_StaleSinceRefresh ==
    /\ arm = "Host"
    /\ resolved = {"zed"}
    /\ on_path = {}
    /\ installed_ids = {<<"z">>}

\* ---- keys without an effect, and the end of the loop

\* C26: outside both modes, a key without an arm and a key event that is
\* not a Press leave the modes, the pending action, the tab, the category,
\* the query, the list, the cursor, the selection and the installed set as
\* they are, set no status, and the loop goes on.
C26_UnmappedKeyChangesNothing ==
    [][ Normal /\ arm' \in {"KeyIgnored", "NoEvent"} =>
          /\ UNCHANGED <<modes, view, selected_ids, installed_ids>>
          /\ status_set' = None
          /\ running' ]_vars

\* A key without an arm came with entries selected, a query and the cursor
\* on the second row.
C26_IgnoredWithSelection ==
    /\ arm = "KeyIgnored"
    /\ selected_ids # {}
    /\ search_input # <<>>
    /\ list_state = Some(1)

\* C27: the loop ends only by the quit key outside both modes; in search
\* mode 'q' goes to the end of the query and a Control character is
\* ignored, in confirm mode 'q' cancels and leaves neither mode on, and an
\* iteration that ran commands, however they ended, goes on.
C27_OnlyQuitEndsLoop ==
    [][ /\ running /\ ~running' =>
              arm' = "KeyQuit" /\ ~search_mode /\ ~confirm_mode
        /\ arm' = "SearchChar" /\ typed' = Some("q") =>
              /\ running' /\ search_mode'
              /\ search_input' = Append(search_input, "q")
        /\ arm' = "SearchIgnored" =>
              running' /\ search_mode' /\ search_input' = search_input
        /\ arm' = "ConfirmCancel" =>
              /\ running' /\ ~search_mode' /\ ~confirm_mode'
              /\ confirm_action' = None
        /\ spawned' # <<>> => running' ]_vars

\* 'q' was typed into the query and the loop goes on.
C27_QTypedInSearch ==
    /\ arm = "SearchChar"
    /\ typed = Some("q")
    /\ search_input = <<"x", "q">>
    /\ search_mode
    /\ running

\* ---- the iteration without an event

\* The step is an iteration of the loop that found no event, not the clock
\* moving after one.
IdleIteration == arm' = "NoEvent" /\ instant' = instant

\* C28 as stated: an iteration whose poll times out changes no field of the
\* application state, the log queue included.
C28_IdleChangesNothing ==
    [][ IdleIteration =>
          UNCHANGED <<modes, view, selected_ids, installed_ids, running, logs>> ]_vars

\* C28, amended: an iteration whose poll times out changes no field of the
\* application state but the log queue, which the draw at the top of the
\* iteration prunes: it loses the entries of 3 seconds and more, keeps the
\* others in their order and gains none; no status is set.
C28_IdleOnlyPrunesLog ==
    [][ IdleIteration =>
          /\ UNCHANGED <<modes, view, selected_ids, installed_ids, running>>
          /\ status_set' = None
          /\ logs' = Fresh(logs, instant)
          /\ footer'.logs = logs' ]_vars

\* An iteration without an event has drawn the footer and taken two expired
\* entries out of the queue, leaving a younger one.
C28_IdleDrawPruned ==
    /\ arm = "NoEvent"
    /\ footer.at = instant
    /\ footer.dropped = 2
    /\ Len(logs) = 1

\* ---- Control in search mode, and the cursor after a refresh

\* C29: in search mode, a character key pressed with Control leaves the
\* query, the list, the cursor and the modes as they are.
C29_ControlCharIgnored ==
    [][ search_mode /\ arm' = "SearchIgnored" =>
          /\ search_input' = search_input
          /\ filtered_indices' = filtered_indices
          /\ list_state' = list_state
          /\ search_mode' /\ confirm_mode' = confirm_mode ]_vars

\* A Control character came while a query that matches something was being
\* typed.
C29_ControlWhileTyping ==
    /\ arm = "SearchIgnored"
    /\ search_mode
    /\ search_input # <<>>
    /\ filtered_indices # <<>>
    /\ list_state # None

\* C30: a step that calls refresh_filter leaves the cursor where it was when
\* its index is below the length of the new list, whatever entry is there
\* now; otherwise the cursor is None for an empty list and Some(0) for
\* another, and so a cursor of None becomes Some(0) on a list with entries.
C30_CursorRepairedByPosition ==
    [][ CallsOf("refresh_filter") # {} =>
          /\ list_state # None /\ list_state[1] < Len(filtered_indices') =>
                list_state' = list_state
          /\ list_state # None /\ list_state[1] >= Len(filtered_indices') =>
                list_state' = IF filtered_indices' = <<>> THEN None ELSE Some(0)
          /\ list_state = None =>
                list_state' = IF filtered_indices' = <<>> THEN None ELSE Some(0) ]_vars

\* Tab has gone from All, where the first row was the first entry, to
\* Installed, which lists the second entry alone: the cursor is on the first
\* row, and that row is another entry.
C30_SameRowOtherEntry ==
    /\ arm = "KeyTab"
    /\ selected_tab = 1
    /\ search_input = <<>>
    /\ list_state = Some(0)
    /\ filtered_indices = <<1>>

\* ---- the cursor keys

Flipped(ids, id) == (ids \ {id}) \cup ({id} \ ids)

\* C32: the space key flips the id of the entry under the cursor in
\* selected_ids and touches no other id, so that flipping it again gives the
\* set back; without an entry under the cursor selected_ids stays; the
\* cursor and the list stay in both cases.
C32_ToggleFlipsFocusedId ==
    [][ arm' = "KeySpace" =>
          /\ CurrentEntry # None =>
                /\ selected_ids' = Flipped(selected_ids, CurrentEntry[1].id)
                /\ selected_ids' # selected_ids
                /\ Flipped(selected_ids', CurrentEntry[1].id) = selected_ids
          /\ CurrentEntry = None => selected_ids' = selected_ids
          /\ UNCHANGED <<list_state, filtered_indices>> ]_vars

\* The space key has taken the entry under the cursor out of a selection
\* that still holds another.
C32_FocusedIdUnchecked ==
    /\ arm = "KeySpace"
    /\ CurrentEntry # None
    /\ CurrentEntry[1].id \notin selected_ids
    /\ selected_ids # {}

\* ---- the tab keys and the category keys

\* The step moves selected_tab by this much modulo 3 and calls refresh_filter.
TabMoved(by) ==
    /\ selected_tab' = (selected_tab + TabsLen + by) % TabsLen
    /\ CallsOf("refresh_filter") # {}

\* The step moves selected_category by this much modulo the number of
\* categories and calls refresh_filter.
CategoryMoved(by) ==
    /\ selected_category' =
          (selected_category + Len(categories) + by) % Len(categories)
    /\ CallsOf("refresh_filter") # {}

\* C33 as stated: Tab and BackTab move selected_tab by +1 and -1 modulo 3,
\* Right and Left move selected_category by +1 and -1 modulo the number of
\* categories, and each of the four calls refresh_filter, in whatever state
\* outside the modes the key comes.
C33_CyclingAlwaysMoves ==
    [][ /\ arm' = "KeyTab" => TabMoved(1)
        /\ arm' = "KeyBackTab" => TabMoved(-1)
        /\ arm' = "KeyRight" => CategoryMoved(1)
        /\ arm' = "KeyLeft" => CategoryMoved(-1) ]_vars

\* C33, amended: Tab and BackTab move selected_tab by +1 and -1 modulo 3 and
\* call refresh_filter in every state; Right and Left move selected_category
\* by +1 and -1 modulo the number of categories and call refresh_filter on
\* the tab Categories, and on the other two tabs they change neither
\* selected_category nor the rest of the view and call nothing.
C33_CategoryKeysOnCategoriesTab ==
    [][ /\ arm' = "KeyTab" => TabMoved(1) /\ selected_category' = selected_category
        /\ arm' = "KeyBackTab" => TabMoved(-1) /\ selected_category' = selected_category
        /\ arm' = "KeyRight" =>
              IF selected_tab = 2 THEN CategoryMoved(1) /\ selected_tab' = 2
              ELSE UNCHANGED view /\ events' = <<>>
        /\ arm' = "KeyLeft" =>
              IF selected_tab = 2 THEN CategoryMoved(-1) /\ selected_tab' = 2
              ELSE UNCHANGED view /\ events' = <<>> ]_vars

\* Left came on the tab Installed, with the second of two categories chosen
\* earlier and entries listed.
C33_LeftOutsideCategories ==
    /\ arm = "KeyLeft"
    /\ selected_tab = 1
    /\ Len(categories) = 2
    /\ selected_category = 1
    /\ filtered_indices # <<>>

\* ---- the categories

\* Catalogs of up to three entries, told apart by their categories only,
\* with categories that repeat and categories that differ in case alone.
CategoryCatalogs ==
    LET named == { [category |-> c] :
                     c \in { <<"D", "e", "v">>, <<"d", "e", "v">>, <<"N", "e", "t">> } }
    IN  UNION { [1..n -> named] : n \in 0..3 }

\* These categories are the ones of this catalog as App::new is to make them: at least one,
\* in strictly increasing byte order (so none twice, and two that differ in
\* case both there), and the categories of the entries and no other, or
\* "uncategorized" alone when there is no entry.
CategoriesFor(cats, ents) ==
    /\ cats # <<>>
    /\ \A k \in 1..(Len(cats) - 1) : StrLess(cats[k], cats[k + 1])
    /\ IF Len(ents) = 0
       THEN cats = << <<"u","n","c","a","t","e","g","o","r","i","z","e","d">> >>
       ELSE { cats[k] : k \in 1..Len(cats) } = { ents[i].category : i \in 1..Len(ents) }

\* selected_category and selected_tab are indices of what they index.
IndicesValid ==
    /\ selected_category \in 0..(Len(categories) - 1)
    /\ selected_tab \in 0..(TabsLen - 1)

\* C34: categories is never empty and is the sorted list of the categories
\* of the entries without repetition, or "uncategorized" alone for an empty
\* catalog, as App::new makes it of any catalog; no step changes it; and in
\* every state selected_category is an index into it and selected_tab is
\* 0, 1 or 2.
C34_CategoriesFixedIndicesValid ==
    [][ /\ CategoriesFor(categories, entries)
        /\ categories' = categories
        /\ IndicesValid /\ IndicesValid'
        /\ arm = "App::new" =>
              \A ents \in CategoryCatalogs : CategoriesFor(CategoriesOf(ents), ents) ]_vars

\* Right has wrapped from the last of two categories to the first, on the
\* tab Categories.
C34_CategoryWrapped ==
    /\ arm = "KeyRight"
    /\ selected_tab = 2
    /\ Len(categories) = 2
    /\ selected_category = 0

\* ---- the order of a batch

\* The place in the catalog of the entry with this id.
EntryIndex(id) == CHOOSE i \in 1..Len(entries) : entries[i].id = id

\* C35: in the batch of an install, of a confirmed uninstall and of a
\* launch, the calls about the targets come target after target in the
\* order of the catalog, whatever the order they were checked in; a target
\* has one command at most, every command is run to its end at one place of
\* the calls, and the command of an install or an uninstall runs between
\* the suspension for its target and the return from it, so that no command
\* starts before the one before it has ended.
C35_BatchInCatalogOrder ==
    [][ arm' \in {"KeyInstall", "ConfirmEnterYes", "KeyLaunch"} =>
          LET about == SelectSeq(events', LAMBDA e : e.id # <<>>)
          IN  /\ \A i \in 1..Len(about) : \A j \in 1..Len(about) :
                    i < j => EntryIndex(about[i].id) <= EntryIndex(about[j].id)
              /\ \A j \in 1..(Len(spawned') - 1) :
                    EntryIndex(spawned'[j].id) < EntryIndex(spawned'[j + 1].id)
              /\ Cardinality(CallsOf("spawn")) = Len(spawned')
              /\ \A i \in CallsOf("spawn") :
                    /\ spawned'[events'[i].detail].id = events'[i].id
                    /\ \A j \in CallsOf("spawn") :
                          i < j => events'[i].detail < events'[j].detail
                    /\ arm' # "KeyLaunch" =>
                          /\ i > 1 /\ i < Len(events')
                          /\ events'[i - 1].kind = "suspend"
                          /\ events'[i - 1].id = events'[i].id
                          /\ events'[i + 1].kind = "resume"
                          /\ events'[i + 1].id = events'[i].id ]_vars

\* The install key has run the commands of two checked entries, the first
\* of the catalog first although its command failed, with the cursor on the
\* second row.
C35_TwoCommandsInOrder ==
    /\ arm = "KeyInstall"
    /\ Len(spawned) = 2
    /\ spawned[1].id = <<"x">> /\ ~spawned[1].ok
    /\ spawned[2].id = <<"z">> /\ spawned[2].ok
    /\ list_state = Some(1)

\* ---- the quick launch

\* C36: Enter outside the modes is about the entry under the cursor alone,
\* whatever is checked: it runs one command at most, for that entry, and
\* none without an entry under the cursor, without tmux or for an entry that
\* is not installed; the modes, the selection, the installed set, the list
\* and the cursor stay as they are.
C36_EnterLaunchesFocusedOnly ==
    [][ arm' = "KeyEnter" =>
          /\ Len(spawned') <= 1
          /\ spawned' # <<>> =>
                /\ CurrentEntry # None
                /\ spawned'[1].id = CurrentEntry[1].id
                /\ spawned'[1].program = "tmux"
                /\ IsInstalled(CurrentEntry[1])
                /\ \A i \in CallsOf("has_tmux") : events'[i].detail
          /\ \A i \in 1..Len(events') :
                events'[i].id # <<>> =>
                  CurrentEntry # None /\ events'[i].id = CurrentEntry[1].id
          /\ UNCHANGED <<modes, selected_ids, installed_ids, filtered_indices,
                         list_state>> ]_vars

\* Enter has launched Z, the entry under the cursor, while X alone is
\* checked and installed too.
C36_LaunchedUncheckedFocused ==
    /\ arm = "KeyEnter"
    /\ Len(spawned) = 1
    /\ spawned[1].id = <<"z">>
    /\ selected_ids = { <<"x">> }
    /\ installed_ids = { <<"x">>, <<"z">> }

\* ---- the pending uninstall

\* C37: confirm_mode is on exactly when confirm_action holds targets, and
\* then there is at least one of them, each is in installed_ids and each
\* has an uninstall command for the platform that is not blank.
C37_PendingTargetsEligible ==
    /\ confirm_mode <=> confirm_action # None
    /\ confirm_mode =>
          LET targets == confirm_action[1]
          IN  /\ targets # <<>>
              /\ \A k \in 1..Len(targets) :
                    /\ targets[k].id \in installed_ids
                    /\ platform # "Unknown"
                    /\ LET cmd == CASE platform = "Linux" -> targets[k].uninstall.linux
                                    [] platform = "Wsl" -> targets[k].uninstall.wsl
                                    [] platform = "Mac" -> targets[k].uninstall.mac
                                    [] platform = "Windows" -> targets[k].uninstall.windows
                       IN  \E i \in 1..Len(cmd) : cmd[i] # " "

\* The dialog is still open on two targets after Right has moved the choice.
C37_PendingAfterRight ==
    /\ arm = "ConfirmRight"
    /\ confirm_mode
    /\ ~confirm_selected
    /\ Len(confirm_action[1]) = 2

\* ---- the three modes

\* C38: search_mode and confirm_mode are never on together; search mode is
\* entered by '/' and confirm mode by the uninstall key, both from neither
\* mode only; Enter and Esc in search mode, and Enter, Esc and 'q' in
\* confirm mode, end with neither mode on.
C38_ModesExclusive ==
    [][ /\ ~(search_mode /\ confirm_mode)
        /\ ~(search_mode' /\ confirm_mode')
        /\ ~search_mode /\ search_mode' => ~confirm_mode /\ arm' = "KeySlash"
        /\ ~confirm_mode /\ confirm_mode' => ~search_mode /\ arm' = "KeyUninstall"
        /\ arm' \in {"SearchEsc", "SearchEnter"} =>
              search_mode /\ ~confirm_mode /\ ~search_mode' /\ ~confirm_mode'
        /\ arm' \in {"ConfirmEnterYes", "ConfirmEnterNo", "ConfirmCancel"} =>
              confirm_mode /\ ~search_mode /\ ~confirm_mode' /\ ~search_mode' ]_vars

\* Enter on "No" has closed the dialog: neither mode is on, and nothing was
\* uninstalled.
C38_DialogDeclined ==
    /\ arm = "ConfirmEnterNo"
    /\ ~search_mode /\ ~confirm_mode
    /\ confirm_action = None
    /\ installed_ids # {}
    /\ search_input # <<>>

\* ---- the terminal around a command

\* The terminal is as the statement that is next expects it when every one
\* before it succeeded: in raw mode on the alternate screen while the loop
\* draws and polls (outside a call, and in a call up to disable_raw_mode),
\* out of raw mode and off the alternate screen when the command runs.
SurfaceAsExpected ==
    CASE pc \in {"idle", "returned", "show_transient_message", "disable_raw_mode"} ->
             raw_mode /\ alt_screen
      [] pc = "LeaveAlternateScreen" -> ~raw_mode /\ alt_screen
      [] pc \in {"f", "EnterAlternateScreen"} -> ~raw_mode /\ ~alt_screen
      [] pc = "enable_raw_mode" -> ~raw_mode /\ alt_screen

\* C39: the loop starts with the terminal in raw mode on the alternate
\* screen, and as long as no terminal operation fails every statement of
\* suspend_tui_for_command leaves the terminal as the next one expects it:
\* the command runs out of raw mode and off the alternate screen, and each
\* call returns to the loop, whether its command succeeded or failed and
\* however many calls came before, in raw mode on the alternate screen.
C39_SuspendedWhileCommandRuns ==
    [][ /\ pc = "idle" => raw_mode /\ alt_screen
        /\ SurfaceAsExpected /\ ~ReturnErr => SurfaceAsExpected'
        /\ SurfaceAsExpected /\ pc = "f" =>
              ~raw_mode /\ ~alt_screen /\ run_result' # None ]_vars

\* A call has returned the error of its command to the loop, with the
\* terminal taken back.
C39_FailedCommandSurfaceBack ==
    /\ pc = "returned"
    /\ run_result = Some("Err")
    /\ result = Some("Err")
    /\ raw_mode /\ alt_screen

\* ---- the selection

\* C40: selected_ids holds ids of the catalog only; no step but the space
\* key and the clear key changes it, a batch that has run included; the
\* clear key empties it and leaves the cursor and the list; and an install
\* request on a known platform is about every checked entry, listed or not.
C40_SelectionOnlyByItsKeys ==
    [][ /\ selected_ids \subseteq CatalogIds
        /\ selected_ids' \subseteq CatalogIds
        /\ selected_ids' # selected_ids => arm' \in {"KeySpace", "KeyClear"}
        /\ arm' = "KeyClear" =>
              selected_ids' = {} /\ UNCHANGED <<list_state, filtered_indices>>
        /\ arm' = "KeyInstall" /\ platform # "Unknown" =>
              \A id \in selected_ids :
                \E i \in 1..Len(events') : events'[i].id = id ]_vars

\* Z, checked and hidden by the query "C", has been installed by the
\* install key; it is still checked and still hidden.
C40_HiddenCheckedInstalled ==
    /\ arm = "KeyInstall"
    /\ selected_tab = 0
    /\ search_input = <<"C">>
    /\ filtered_indices = <<0>>
    /\ selected_ids = { <<"z">> }
    /\ Len(spawned) = 1 /\ spawned[1].id = <<"z">> /\ spawned[1].ok

====
